---- MODULE Spec2Model ----
(***************************************************************************)
(* Model of the coordinator's block-DAG and fork-choice engine             *)
(* (src/coordinator/chain.py, src/coordinator/pow.py) and of the request   *)
(* handlers that drive it (src/coordinator/app.py).                        *)
(*                                                                         *)
(* Digests are modelled by their integer value (has_leading_zero_bits      *)
(* reads the hex digest as an integer); the digest width is scaled down    *)
(* from 256 bits to HashBits bits. SHA-256 is replaced by a deterministic  *)
(* function of the header that, like SHA-256 on the headers of a run,      *)
(* gives different headers different digests, never gives the genesis hash,*)
(* and sets the leading bit for some nonces of a header and not for others.*)
(***************************************************************************)
EXTENDS Integers, Sequences, FiniteSets, TLC

\* ---------------------------------------------------------------- bounds
MaxNonce == 2          \* nonces submitted: 0..MaxNonce
MaxCalls == 3          \* submissions served in a run, any outcome
MaxBlocks == 4         \* submissions served in a run of SpecSerial
MaxSigned == 2         \* submissions served in a run where mined_ts varies
MaxForked == 2         \* of the submissions of a run where the clock runs, those
                       \* that may fork the chain or repeat a header
MaxTimed == 3          \* submissions served in a run where the clock runs
MaxClock == 2          \* milliseconds that pass in a run

\* ------------------------------------------------------- program constants
HashBits == 30         \* width of a digest: 256 in pow.py, scaled down
DIFFICULTY_BITS == 1   \* difficulty_bits handed to Chain(...)

VARIABLES
    blocks_by_hash,     \* Chain.blocks_by_hash: digest -> Block
    blocks_keys,        \* its keys in the order of insertion, which a dict keeps
    children_by_hash,   \* Chain.children_by_hash: digest -> sequence of Block
    tips,               \* Chain.tips
    best_tip_hash,      \* Chain.best_tip_hash
    main_chain_hashes,  \* Chain.main_chain_hashes
    accepted_by_miner,  \* Chain.accepted_by_miner
    rejected_total,     \* Chain.rejected_total
    rejected_by_reason, \* Chain.rejected_by_reason
    forks_detected,     \* Chain.forks_detected
    reorg_count,        \* Chain.reorg_count
    now,                \* the clock: int(time.time() * 1000)
    serial,             \* no two validate_and_add calls have overlapped so far
    entered,            \* calls of validate_and_add entered so far
    before,             \* the thread and the Chain fields of the call entered last,
                        \* when no call has overlapped with another
    frames,             \* request thread -> the frame of its validate_and_add
    miners              \* miner process -> where it is in mine_once, cached_tpl

vars == <<blocks_by_hash, blocks_keys, children_by_hash, tips, best_tip_hash,
          main_chain_hashes, accepted_by_miner, rejected_total,
          rejected_by_reason, forks_detected, reorg_count, now, serial,
          entered, before, frames, miners>>

\* ------------------------------------------------------------ input sets
UnknownDigest == 2^HashBits - 1      \* a digest no block is stored under
\* heights submitted: those a block of the run can have, and 0
Heights == 0 .. 3
Nonces == 0 .. MaxNonce
Miners == {"m1", "m2"}
MinedTs == {0}
\* the milliseconds that pass between the two clock readings of the
\* construction (chain.py lines 55 and 67)
ConstructionTicks == {0, 1}

None == <<>>
Some(x) == <<x>>

\* ------------------------------------------------------------- pow.py
\* header_bytes: the string "{height}|{prev_hash}|{nonce}", held as its fields
header_bytes(height, prev_hash, nonce) == <<height, prev_hash, nonce>>

\* the digits a header field takes in the digest: heights below HeightSpan,
\* nonces below NonceSpan and prev_hash digests below PrevSpan are told apart
HeightSpan == 8
NonceSpan == 4
PrevSpan == 2^(HashBits - 1) \div (HeightSpan * NonceSpan) - 1

\* sha256_hex: a deterministic digest of the header, HashBits wide. The
\* leading bit is set or not by the three fields together; the other bits
\* hold the fields, so that two headers differ in their digests and no
\* header has the digest 0 of genesis.
sha256_hex(data) ==
    LET height == data[1]
        prev_hash == data[2]
        nonce == data[3]
        leading == (height + prev_hash + nonce + 1) % 2
        rest == ((prev_hash % PrevSpan) * HeightSpan + (height % HeightSpan))
                    * NonceSpan + (nonce % NonceSpan) + 1
    IN  leading * 2^(HashBits - 1) + rest

\* has_leading_zero_bits: int(hash) < 2^(256 - difficulty_bits)
has_leading_zero_bits(hex_hash, difficulty_bits) ==
    LET h == hex_hash
        target == 2^(HashBits - difficulty_bits)
    IN  h < target

\* ------------------------------------------------------------- chain.py
\* Chain.start_time_ms: the clock reading of line 55, from which the model
\* counts the milliseconds
start_time_ms == 0

Block(height, prev_hash, nonce, miner_id, mined_ts, accepted_ts, block_hash) ==
    [height |-> height, prev_hash |-> prev_hash, nonce |-> nonce,
     miner_id |-> miner_id, mined_timestamp_ms |-> mined_ts,
     accepted_timestamp_ms |-> accepted_ts, block_hash |-> block_hash]

genesis_hash == 0      \* "0" * 64

\* _genesis lines 67-77; t is the clock reading of line 67
genesis_block(t) == Block(0, genesis_hash, 0, "genesis", t, t, genesis_hash)

\* d[k] = d.get(k, 0) + 1
DictInc(d, k) ==
    IF k \in DOMAIN d THEN [d EXCEPT ![k] = @ + 1] ELSE (k :> 1) @@ d

\* dict.setdefault(k, [])
SetDefault(d, k) ==
    IF k \in DOMAIN d THEN d ELSE (k :> <<>>) @@ d

\* _recompute_main_chain: walk prev_hash from the best tip down to height 0
RECURSIVE WalkMainChain(_, _, _)
WalkMainChain(blocks, cur, chain_hashes) ==
    LET added == chain_hashes \cup {cur}
        blk == blocks[cur]
    IN  IF blk.height = 0 THEN added
        ELSE WalkMainChain(blocks, blk.prev_hash, added)

recompute_main_chain(blocks, best) == WalkMainChain(blocks, best, {})

\* _is_ancestor
RECURSIVE is_ancestor_from(_, _, _)
is_ancestor_from(blocks, ancestor_hash, cur) ==
    IF cur = ancestor_hash THEN TRUE
    ELSE IF blocks[cur].height = 0 THEN FALSE
    ELSE is_ancestor_from(blocks, ancestor_hash, blocks[cur].prev_hash)

is_ancestor(blocks, ancestor_hash, descendant_hash) ==
    is_ancestor_from(blocks, ancestor_hash, descendant_hash)

\* iteration orders of a set: `for h in self.tips`
Orders(S) ==
    {f \in [1 .. Cardinality(S) -> S] : \A i, j \in DOMAIN f : f[i] = f[j] => i = j}

\* the loop of _update_best_tip over one iteration order; yields the local
\* variables best_tip, choose_random, candidates at loop exit
RECURSIVE TipLoop(_, _, _, _, _)
TipLoop(blocks, order, i, best, candidates) ==
    IF i > Len(order)
    THEN [best_tip |-> best, choose_random |-> candidates # <<>>,
          candidates |-> candidates]
    ELSE LET h == order[i] IN
         IF blocks[h].height + 2 > blocks[best].height
         THEN [best_tip |-> h, choose_random |-> FALSE, candidates |-> candidates]
         ELSE IF blocks[h].height = blocks[best].height
         THEN TipLoop(blocks, order, i + 1, best, Append(candidates, h))
         ELSE TipLoop(blocks, order, i + 1, best, candidates)

\* _update_best_tip: every value best_tip_hash can take, over the iteration
\* orders of the tip set and the draws of random.choice
update_best_tip(blocks, tipset, best) ==
    UNION { LET r == TipLoop(blocks, order, 1, best, <<>>) IN
            IF r.choose_random
            THEN {r.candidates[k] : k \in DOMAIN r.candidates}
            ELSE {r.best_tip}
          : order \in Orders(tipset) }

\* the four rejection reasons of validate_and_add
UnknownParentReason == "prev_hash not found in chain (unknown parent)"
WrongHeightReason(expected, got) ==
    "wrong height: expected " \o ToString(expected) \o ", got " \o ToString(got)
InvalidPowReason == "invalid PoW for current difficulty"
DuplicateReason == "duplicate block (hash already exists)"

\* validate_and_add, lines 169-190: "" when every check passes, else the
\* reason of the first check that fails
RejectReason(blocks, height, prev_hash, nonce) ==
    IF prev_hash \notin DOMAIN blocks THEN UnknownParentReason
    ELSE LET parent == blocks[prev_hash] IN
         IF height # parent.height + 1
         THEN WrongHeightReason(parent.height + 1, height)
         ELSE LET bh == sha256_hex(header_bytes(height, prev_hash, nonce)) IN
              IF ~has_leading_zero_bits(bh, DIFFICULTY_BITS) THEN InvalidPowReason
              ELSE IF bh \in DOMAIN blocks THEN DuplicateReason
              ELSE ""

\* the request threads of the server (submit_block is a sync handler, run
\* in the server's thread pool)
Threads == {1, 2}

\* the frame of a thread that has not entered validate_and_add. `it` is the
\* iterator of line 250 with the locals of the loop. Three fields are no
\* locals of the code: `replaced` records the best_tip_hash that the
\* thread's write of line 262 replaced, `repeat` that the header of the call
\* was stored when the call was entered, `on_best` that its prev_hash was
\* the best tip then
IdleFrame ==
    [pc |-> "idle", args |-> None, reason |-> "", bh |-> None, block |-> None,
     tmp |-> None, old_best_tip_hash |-> None, best_tip |-> None, it |-> None,
     replaced |-> None, repeat |-> FALSE, on_best |-> FALSE,
     chain_hashes |-> None, ret |-> None]

\* the fields of a Chain object, as one value
ChainState ==
    [blocks_by_hash |-> blocks_by_hash, blocks_keys |-> blocks_keys,
     children_by_hash |-> children_by_hash, tips |-> tips, best_tip_hash |-> best_tip_hash,
     main_chain_hashes |-> main_chain_hashes,
     accepted_by_miner |-> accepted_by_miner, rejected_total |-> rejected_total,
     rejected_by_reason |-> rejected_by_reason,
     forks_detected |-> forks_detected, reorg_count |-> reorg_count]

\* Chain.__init__ and _genesis; t is the clock reading of line 67
InitChain(t) ==
    [blocks_by_hash |-> (genesis_hash :> genesis_block(t)),
     blocks_keys |-> <<genesis_hash>>,
     children_by_hash |-> (genesis_hash :> <<>>),
     tips |-> {genesis_hash},
     best_tip_hash |-> genesis_hash,
     main_chain_hashes |->
         recompute_main_chain((genesis_hash :> genesis_block(t)), genesis_hash),
     accepted_by_miner |-> <<>>,
     rejected_total |-> 0,
     rejected_by_reason |-> <<>>,
     forks_detected |-> 0,
     reorg_count |-> 0]

Args(height, prev_hash, nonce, miner_id, mined_ts) ==
    [height |-> height, prev_hash |-> prev_hash, nonce |-> nonce,
     miner_id |-> miner_id, mined_ts |-> mined_ts]

\* Chain.orphan_count
orphan_count(c) ==
    Cardinality(DOMAIN c.blocks_by_hash) - Cardinality(c.main_chain_hashes)

\* Chain.best_tip and Chain.height
best_tip(c) == c.blocks_by_hash[c.best_tip_hash]
Chain_height(c) == best_tip(c).height

\* how a parent walk went: the iterations of its loop that were begun and
\* the way the loop was left ("break", "return", "KeyError" for a lookup of
\* a hash that is no key of blocks_by_hash, "unbounded" for a walk that
\* went on for more iterations than there are blocks, and so comes back to
\* a block it has visited and never ends)
Walked(iterations, exit) == [iterations |-> iterations, exit |-> exit]
WalkFuel(blocks) == Cardinality(DOMAIN blocks) + 1

\* the loop of _recompute_main_chain from cur, after n iterations
RECURSIVE recompute_walk(_, _, _, _)
recompute_walk(blocks, cur, n, fuel) ==
    IF fuel = 0 THEN Walked(n, "unbounded")
    ELSE IF cur \notin DOMAIN blocks THEN Walked(n + 1, "KeyError")
    ELSE IF blocks[cur].height = 0 THEN Walked(n + 1, "break")
    ELSE recompute_walk(blocks, blocks[cur].prev_hash, n + 1, fuel - 1)

\* the loop of _is_ancestor from cur, after n iterations
RECURSIVE is_ancestor_walk(_, _, _, _, _)
is_ancestor_walk(blocks, ancestor_hash, cur, n, fuel) ==
    IF fuel = 0 THEN Walked(n, "unbounded")
    ELSE IF cur = ancestor_hash THEN Walked(n + 1, "return")
    ELSE IF cur \notin DOMAIN blocks THEN Walked(n + 1, "KeyError")
    ELSE IF blocks[cur].height = 0 THEN Walked(n + 1, "break")
    ELSE is_ancestor_walk(blocks, ancestor_hash, blocks[cur].prev_hash,
                          n + 1, fuel - 1)

\* the loop of get_main_chain_blocks from cur, after n iterations
RECURSIVE main_chain_walk(_, _, _, _, _)
main_chain_walk(blocks, cur, limit, n, fuel) ==
    IF fuel = 0 THEN Walked(n, "unbounded")
    ELSE IF cur \notin DOMAIN blocks THEN Walked(n + 1, "KeyError")
    ELSE IF blocks[cur].height = 0 \/ n + 1 >= limit THEN Walked(n + 1, "break")
    ELSE main_chain_walk(blocks, blocks[cur].prev_hash, limit, n + 1, fuel - 1)

\* the loop of get_main_chain_blocks: out, tip first
RECURSIVE WalkBack(_, _, _, _)
WalkBack(blocks, cur, out, limit) ==
    LET blk == blocks[cur]
        out1 == Append(out, blk)
    IN  IF blk.height = 0 \/ Len(out1) >= limit THEN out1
        ELSE WalkBack(blocks, blk.prev_hash, out1, limit)

\* list.reverse
Reverse(seq) == [i \in 1 .. Len(seq) |-> seq[Len(seq) + 1 - i]]

\* Chain.get_main_chain_blocks
get_main_chain_blocks(c, limit) ==
    IF limit <= 0 THEN <<>>
    ELSE Reverse(WalkBack(c.blocks_by_hash, c.best_tip_hash, <<>>, limit))

\* list.sort(key=...): the sort is stable, so blocks of equal key stay in the
\* order they had in the list. `sorted` is sorted already; h goes behind
\* the hashes whose key is not above its own.
InsertSorted(sorted, h, key) ==
    LET k == Cardinality({i \in DOMAIN sorted : key[sorted[i]] <= key[h]})
    IN  SubSeq(sorted, 1, k) \o <<h>> \o SubSeq(sorted, k + 1, Len(sorted))

RECURSIVE SortHashes(_, _, _)
SortHashes(sorted, rest, key) ==
    IF rest = <<>> THEN sorted
    ELSE SortHashes(InsertSorted(sorted, Head(rest), key), Tail(rest), key)

\* list(self.blocks_by_hash.values()), sorted: the values stand in the order
\* of insertion of their keys before the sort
SortedList(c, key) ==
    LET order == SortHashes(<<>>, c.blocks_keys, key)
    IN  [i \in DOMAIN order |-> c.blocks_by_hash[order[i]]]

\* key=lambda b: b.height
ByHeight(blocks) == [h \in DOMAIN blocks |-> blocks[h].height]

\* key=lambda b: b.accepted_timestamp_ms, reverse=True: descending, and
\* blocks of equal key stay in their order
ByAcceptedDesc(blocks) ==
    [h \in DOMAIN blocks |-> 0 - blocks[h].accepted_timestamp_ms]

\* Chain.get_all_blocks
Chain_get_all_blocks(c) == SortedList(c, ByHeight(c.blocks_by_hash))

\* Chain.get_recent_blocks
get_recent_blocks(c, limit) ==
    IF limit <= 0 THEN <<>>
    ELSE LET all_blocks == SortedList(c, ByAcceptedDesc(c.blocks_by_hash))
         IN  SubSeq(all_blocks, 1, IF limit < Len(all_blocks) THEN limit
                                   ELSE Len(all_blocks))

\* sum(times)
RECURSIVE SumSeq(_)
SumSeq(seq) == IF seq = <<>> THEN 0 ELSE Head(seq) + SumSeq(Tail(seq))

\* a float that is the quotient of two integers, held as the two
Quotient(num, den) == [num |-> num, den |-> den]

\* MAIN_CHAIN_LIMIT: the limit avg_block_time_ms and last_block_time_ms pass
MAIN_CHAIN_LIMIT == 10000

\* avg_block_time_ms that takes the delta from genesis to the first block too
avg_block_time_ms_WithFirstDelta(c) ==
    LET chain == get_main_chain_blocks(c, MAIN_CHAIN_LIMIT) IN
    IF Len(chain) <= 2 THEN Quotient(0, 1)
    ELSE LET times == [k \in 1 .. (Len(chain) - 1) |->
                          chain[k + 1].accepted_timestamp_ms
                              - chain[k].accepted_timestamp_ms]
         IN  Quotient(SumSeq(times), Len(times))

\* Chain.avg_block_time_ms
avg_block_time_ms(c) ==
    LET chain == get_main_chain_blocks(c, MAIN_CHAIN_LIMIT) IN
    IF Len(chain) <= 2 THEN Quotient(0, 1)
    ELSE LET times == [k \in 1 .. (Len(chain) - 2) |->
                          chain[k + 2].accepted_timestamp_ms
                              - chain[k + 1].accepted_timestamp_ms]
         IN  Quotient(SumSeq(times), Len(times))

\* last_block_time_ms over the two blocks accepted last on any branch
last_block_time_ms_AnyBranch(c) ==
    LET recent == get_recent_blocks(c, 2) IN
    IF Len(recent) < 2 THEN None
    ELSE Some(recent[1].accepted_timestamp_ms - recent[2].accepted_timestamp_ms)

\* Chain.last_block_time_ms
last_block_time_ms(c) ==
    LET chain == get_main_chain_blocks(c, MAIN_CHAIN_LIMIT) IN
    IF Len(chain) < 2 THEN None
    ELSE Some(chain[Len(chain)].accepted_timestamp_ms
                  - chain[Len(chain) - 1].accepted_timestamp_ms)

\* Chain.uptime_ms; t is the clock reading of line 312
uptime_ms(c, t) == t - start_time_ms

\* _count_reject
count_reject(c, reason) ==
    [c EXCEPT !.rejected_total = @ + 1,
              !.rejected_by_reason = DictInc(@, reason)]

\* validate_and_add, a rejected submission: lines 169-190
Rejected(c, a, reason) ==
    [chain |-> count_reject(c, reason), ret |-> <<FALSE, reason, None>>]

\* validate_and_add, lines 203-216: the block enters the DAG
InsertBlock(c, block) ==
    LET bh == block.block_hash
        prev_hash == block.prev_hash
        children == [SetDefault(SetDefault(c.children_by_hash, bh), prev_hash)
                        EXCEPT ![prev_hash] = Append(@, block)]
    IN  [c EXCEPT
           !.blocks_by_hash = (bh :> block) @@ @,
           !.blocks_keys = IF bh \in DOMAIN c.blocks_by_hash THEN @ ELSE Append(@, bh),
           !.children_by_hash = children,
           !.forks_detected = IF Len(children[prev_hash]) = 2 THEN @ + 1 ELSE @,
           !.tips = (@ \cup {bh}) \ {prev_hash},
           !.accepted_by_miner = DictInc(@, block.miner_id)]

\* validate_and_add, lines 219-225: the best tip moves to new_best
MoveBestTip(c, new_best) ==
    LET old_best_tip_hash == c.best_tip_hash IN
    IF new_best # old_best_tip_hash
    THEN [c EXCEPT
            !.best_tip_hash = new_best,
            !.reorg_count =
                IF ~is_ancestor(c.blocks_by_hash, old_best_tip_hash, new_best)
                THEN @ + 1 ELSE @,
            !.main_chain_hashes = recompute_main_chain(c.blocks_by_hash, new_best)]
    ELSE c

\* validate_and_add, an accepted submission: lines 192-227; t is the clock
\* reading of line 192. One result per outcome of the fork choice.
Accepted(c, a, t) ==
    LET bh == sha256_hex(header_bytes(a.height, a.prev_hash, a.nonce))
        block == Block(a.height, a.prev_hash, a.nonce, a.miner_id, a.mined_ts, t, bh)
        c1 == InsertBlock(c, block)
    IN  { [chain |-> MoveBestTip(c1, new_best), ret |-> <<TRUE, "accepted", Some(block)>>]
          : new_best \in update_best_tip(c1.blocks_by_hash, c1.tips, c1.best_tip_hash) }

\* Chain.validate_and_add from entry to return: every (chain, ret) it can
\* end with when called on chain c with arguments a at clock reading t
validate_and_add(c, a, t) ==
    LET reason == RejectReason(c.blocks_by_hash, a.height, a.prev_hash, a.nonce) IN
    IF reason # "" THEN {Rejected(c, a, reason)} ELSE Accepted(c, a, t)

\* a miner process before its first call of mine_once: cached_tpl = None,
\* template_counter = 0; payload is the block it found and has to post
IdleMiner ==
    [pc |-> "idle", cached_tpl |-> None, template_counter |-> 0, payload |-> None]

\* app.py line 18: the Chain is constructed. start_time_ms is the clock
\* reading of line 55, the origin of the model's clock; _genesis reads the
\* clock again at line 67.
Init ==
    \E d \in ConstructionTicks :
        /\ blocks_by_hash = InitChain(start_time_ms + d).blocks_by_hash
        /\ blocks_keys = InitChain(start_time_ms + d).blocks_keys
        /\ children_by_hash = InitChain(start_time_ms + d).children_by_hash
        /\ tips = InitChain(start_time_ms + d).tips
        /\ best_tip_hash = InitChain(start_time_ms + d).best_tip_hash
        /\ main_chain_hashes = InitChain(start_time_ms + d).main_chain_hashes
        /\ accepted_by_miner = InitChain(start_time_ms + d).accepted_by_miner
        /\ rejected_total = InitChain(start_time_ms + d).rejected_total
        /\ rejected_by_reason = InitChain(start_time_ms + d).rejected_by_reason
        /\ forks_detected = InitChain(start_time_ms + d).forks_detected
        /\ reorg_count = InitChain(start_time_ms + d).reorg_count
        /\ now = start_time_ms + d
        /\ serial = TRUE
        /\ entered = 0
        /\ before = None
        /\ frames = [t \in Threads |-> IdleFrame]
        /\ miners = [m \in Miners |-> IdleMiner]

\* a millisecond passes: int(time.time() * 1000) reads one more
Tick ==
    /\ now < MaxClock
    /\ now' = now + 1
    /\ UNCHANGED <<blocks_by_hash, blocks_keys, children_by_hash, tips,
                   best_tip_hash, main_chain_hashes, accepted_by_miner,
                   rejected_total, rejected_by_reason, forks_detected,
                   reorg_count, serial, entered, before, frames, miners>>

\* ------------------------------------------------------------------------
\* Requests served in parallel threads. chain.py holds no lock, so the
\* statements of two validate_and_add calls interleave. One step is one
\* statement; `x += 1` and `d[k] = d.get(k, 0) + 1` are a read and a write,
\* and each pass of the loop of _update_best_tip over the live set of tips
\* is a step. The loops of
\* _is_ancestor and _recompute_main_chain read the best tip once and then
\* stored blocks only, which never change: each is one step, and the write
\* of line 110 another.
\* ------------------------------------------------------------------------

\* submissions made to the parallel requests
ConcHeights == {1, 2}
ConcPrevHashes == {genesis_hash, sha256_hex(header_bytes(1, genesis_hash, 0))}
ConcArgs ==
    {Args(height, prev_hash, nonce, miner_id, mined_ts) :
        height \in ConcHeights, prev_hash \in ConcPrevHashes, nonce \in Nonces,
        miner_id \in Miners, mined_ts \in MinedTs}

Frame(t) == frames[t]
Goto(t, label) == frames' = [frames EXCEPT ![t].pc = label]
ChainUnchanged ==
    UNCHANGED <<blocks_by_hash, blocks_keys, children_by_hash, tips, best_tip_hash,
                main_chain_hashes, accepted_by_miner, rejected_total,
                rejected_by_reason, forks_detected, reorg_count>>

\* the statements of validate_and_add that a call which returns Rejected
\* goes through: the four checks and _count_reject
RejectPath == {"L169", "L176", "L181", "L187", "L305r", "L305w", "L306r", "L306w"}

\* the statements of validate_and_add from the store of the block on
AcceptPath ==
    {"L192", "L203", "L204", "L205", "L208", "L209r", "L209w", "L211", "L212",
     "L213", "L216r", "L216w", "L219", "L245", "L250", "L259", "L262",
     "L221", "L222", "L223r", "L223w", "L225", "L110", "L227"}

\* thread t is inside validate_and_add
InCall(t) == Frame(t).pc \in RejectPath \cup AcceptPath

\* no thread is inside validate_and_add
NoCall == \A t \in Threads : ~InCall(t)

HashOfArgs(a) == sha256_hex(header_bytes(a.height, a.prev_hash, a.nonce))

\* the header of submission a is that of a stored block
Stored(a) ==
    /\ HashOfArgs(a) \in DOMAIN blocks_by_hash
    /\ blocks_by_hash[HashOfArgs(a)].height = a.height
    /\ blocks_by_hash[HashOfArgs(a)].prev_hash = a.prev_hash
    /\ blocks_by_hash[HashOfArgs(a)].nonce = a.nonce

\* submit_block line 43: thread t enters validate_and_add with arguments a,
\* whatever the other threads are doing
Call(t, a) ==
    /\ Frame(t).pc = "idle"
    /\ frames' = [frames EXCEPT ![t].pc = "L169", ![t].args = a,
                                ![t].repeat = Stored(a),
                                ![t].on_best = (a.prev_hash = best_tip_hash)]
    /\ serial' = (serial /\ NoCall)
    /\ before' = IF serial /\ NoCall
                 THEN Some([thread |-> t, chain |-> ChainState]) ELSE None
    /\ entered' = entered + 1
    /\ ChainUnchanged
    /\ UNCHANGED now

\* submit_block line 43, for one of the submissions of ConcArgs
Enter(t) ==
    /\ \E a \in ConcArgs : Call(t, a)
    /\ UNCHANGED miners

\* lines 169-172
L169(t) ==
    /\ Frame(t).pc = "L169"
    /\ IF Frame(t).args.prev_hash \notin DOMAIN blocks_by_hash
       THEN frames' = [frames EXCEPT ![t].pc = "L305r",
                                     ![t].reason = UnknownParentReason]
       ELSE Goto(t, "L176")
    /\ ChainUnchanged
    /\ UNCHANGED <<now, serial, entered, before, miners>>

\* lines 174-179 without the height check
L176_NoHeightCheck(t) ==
    /\ Frame(t).pc = "L176"
    /\ Goto(t, "L181")
    /\ ChainUnchanged
    /\ UNCHANGED <<now, serial, entered, before, miners>>

\* lines 174-179 that let every height above the parent's pass
L176_HeightAtLeastExpected(t) ==
    /\ Frame(t).pc = "L176"
    /\ LET a == Frame(t).args
           parent == blocks_by_hash[a.prev_hash]
       IN  IF a.height < parent.height + 1
           THEN frames' = [frames EXCEPT
                   ![t].pc = "L305r",
                   ![t].reason = WrongHeightReason(parent.height + 1, a.height)]
           ELSE Goto(t, "L181")
    /\ ChainUnchanged
    /\ UNCHANGED <<now, serial, entered, before, miners>>

\* lines 174-179 that let every height up to the parent's + 1 pass
L176_HeightAtMostExpected(t) ==
    /\ Frame(t).pc = "L176"
    /\ LET a == Frame(t).args
           parent == blocks_by_hash[a.prev_hash]
       IN  IF a.height > parent.height + 1
           THEN frames' = [frames EXCEPT
                   ![t].pc = "L305r",
                   ![t].reason = WrongHeightReason(parent.height + 1, a.height)]
           ELSE Goto(t, "L181")
    /\ ChainUnchanged
    /\ UNCHANGED <<now, serial, entered, before, miners>>

\* lines 174-179
L176(t) ==
    /\ Frame(t).pc = "L176"
    /\ LET a == Frame(t).args
           parent == blocks_by_hash[a.prev_hash]
       IN  IF a.height # parent.height + 1
           THEN frames' = [frames EXCEPT
                   ![t].pc = "L305r",
                   ![t].reason = WrongHeightReason(parent.height + 1, a.height)]
           ELSE Goto(t, "L181")
    /\ ChainUnchanged
    /\ UNCHANGED <<now, serial, entered, before, miners>>

\* lines 181-185 without the difficulty test
L181_NoPowCheck(t) ==
    /\ Frame(t).pc = "L181"
    /\ LET a == Frame(t).args
           bh == sha256_hex(header_bytes(a.height, a.prev_hash, a.nonce))
       IN  frames' = [frames EXCEPT ![t].pc = "L187", ![t].bh = bh]
    /\ ChainUnchanged
    /\ UNCHANGED <<now, serial, entered, before, miners>>

\* lines 181-185
L181(t) ==
    /\ Frame(t).pc = "L181"
    /\ LET a == Frame(t).args
           bh == sha256_hex(header_bytes(a.height, a.prev_hash, a.nonce))
       IN  IF ~has_leading_zero_bits(bh, DIFFICULTY_BITS)
           THEN frames' = [frames EXCEPT ![t].pc = "L305r",
                                         ![t].bh = bh,
                                         ![t].reason = InvalidPowReason]
           ELSE frames' = [frames EXCEPT ![t].pc = "L187", ![t].bh = bh]
    /\ ChainUnchanged
    /\ UNCHANGED <<now, serial, entered, before, miners>>

\* lines 187-190 without the test of line 187
L187_NoDuplicateCheck(t) ==
    /\ Frame(t).pc = "L187"
    /\ Goto(t, "L192")
    /\ ChainUnchanged
    /\ UNCHANGED <<now, serial, entered, before, miners>>

\* lines 187-190
L187(t) ==
    /\ Frame(t).pc = "L187"
    /\ IF Frame(t).bh \in DOMAIN blocks_by_hash
       THEN frames' = [frames EXCEPT ![t].pc = "L305r",
                                     ![t].reason = DuplicateReason]
       ELSE Goto(t, "L192")
    /\ ChainUnchanged
    /\ UNCHANGED <<now, serial, entered, before, miners>>

\* _count_reject line 305, the read of rejected_total
L305r(t) ==
    /\ Frame(t).pc = "L305r"
    /\ frames' = [frames EXCEPT ![t].pc = "L305w", ![t].tmp = rejected_total]
    /\ ChainUnchanged
    /\ UNCHANGED <<now, serial, entered, before, miners>>

\* _count_reject line 305, the write of rejected_total
L305w(t) ==
    /\ Frame(t).pc = "L305w"
    /\ rejected_total' = Frame(t).tmp + 1
    /\ Goto(t, "L306r")
    /\ UNCHANGED <<blocks_by_hash, blocks_keys, children_by_hash, tips, best_tip_hash,
                   main_chain_hashes, accepted_by_miner, rejected_by_reason,
                   forks_detected, reorg_count, now, serial, entered, before, miners>>

\* _count_reject line 306, rejected_by_reason.get(reason, 0)
L306r(t) ==
    /\ Frame(t).pc = "L306r"
    /\ frames' = [frames EXCEPT
           ![t].pc = "L306w",
           ![t].tmp = IF Frame(t).reason \in DOMAIN rejected_by_reason
                      THEN rejected_by_reason[Frame(t).reason] ELSE 0]
    /\ ChainUnchanged
    /\ UNCHANGED <<now, serial, entered, before, miners>>

\* _count_reject line 306 that credits the miner of the rejected block too
L306w_CreditsMiner(t) ==
    /\ Frame(t).pc = "L306w"
    /\ rejected_by_reason' =
           (Frame(t).reason :> (Frame(t).tmp + 1)) @@ rejected_by_reason
    /\ accepted_by_miner' = DictInc(accepted_by_miner, Frame(t).args.miner_id)
    /\ frames' = [frames EXCEPT ![t].pc = "done",
                                ![t].ret = <<FALSE, Frame(t).reason, None>>]
    /\ UNCHANGED <<blocks_by_hash, blocks_keys, children_by_hash, tips, best_tip_hash,
                   main_chain_hashes, rejected_total,
                   forks_detected, reorg_count, now, serial, entered, before, miners>>

\* _count_reject line 306, the store, and the return of lines 172-190
L306w(t) ==
    /\ Frame(t).pc = "L306w"
    /\ rejected_by_reason' =
           (Frame(t).reason :> (Frame(t).tmp + 1)) @@ rejected_by_reason
    /\ frames' = [frames EXCEPT ![t].pc = "done",
                                ![t].ret = <<FALSE, Frame(t).reason, None>>]
    /\ UNCHANGED <<blocks_by_hash, blocks_keys, children_by_hash, tips, best_tip_hash,
                   main_chain_hashes, accepted_by_miner, rejected_total,
                   forks_detected, reorg_count, now, serial, entered, before, miners>>

\* lines 192-201 with the miner's mined_ts for the time of acceptance
L192_TrustsMinedTs(t) ==
    /\ Frame(t).pc = "L192"
    /\ LET a == Frame(t).args IN
       frames' = [frames EXCEPT
           ![t].pc = "L203",
           ![t].block = Block(a.height, a.prev_hash, a.nonce, a.miner_id,
                              a.mined_ts, a.mined_ts, Frame(t).bh)]
    /\ ChainUnchanged
    /\ UNCHANGED <<now, serial, entered, before, miners>>

\* lines 192-201: the clock is read and the Block built
L192(t) ==
    /\ Frame(t).pc = "L192"
    /\ LET a == Frame(t).args IN
       frames' = [frames EXCEPT
           ![t].pc = "L203",
           ![t].block = Block(a.height, a.prev_hash, a.nonce, a.miner_id,
                              a.mined_ts, now, Frame(t).bh)]
    /\ ChainUnchanged
    /\ UNCHANGED <<now, serial, entered, before, miners>>

\* line 203
L203(t) ==
    /\ Frame(t).pc = "L203"
    /\ blocks_by_hash' = (Frame(t).bh :> Frame(t).block) @@ blocks_by_hash
    /\ blocks_keys' = IF Frame(t).bh \in DOMAIN blocks_by_hash THEN blocks_keys
                      ELSE Append(blocks_keys, Frame(t).bh)
    /\ Goto(t, "L204")
    /\ UNCHANGED <<children_by_hash, tips, best_tip_hash, main_chain_hashes,
                   accepted_by_miner, rejected_total, rejected_by_reason,
                   forks_detected, reorg_count, now, serial, entered, before, miners>>

\* line 204
L204(t) ==
    /\ Frame(t).pc = "L204"
    /\ children_by_hash' = SetDefault(children_by_hash, Frame(t).bh)
    /\ Goto(t, "L205")
    /\ UNCHANGED <<blocks_by_hash, blocks_keys, tips, best_tip_hash, main_chain_hashes,
                   accepted_by_miner, rejected_total, rejected_by_reason,
                   forks_detected, reorg_count, now, serial, entered, before, miners>>

\* line 205
L205(t) ==
    /\ Frame(t).pc = "L205"
    /\ children_by_hash' =
           [SetDefault(children_by_hash, Frame(t).args.prev_hash)
               EXCEPT ![Frame(t).args.prev_hash] = Append(@, Frame(t).block)]
    /\ Goto(t, "L208")
    /\ UNCHANGED <<blocks_by_hash, blocks_keys, tips, best_tip_hash, main_chain_hashes,
                   accepted_by_miner, rejected_total, rejected_by_reason,
                   forks_detected, reorg_count, now, serial, entered, before, miners>>

\* line 208 with a fork counted when the parent gets its third child
L208_ForkAtThirdChild(t) ==
    /\ Frame(t).pc = "L208"
    /\ IF Len(children_by_hash[Frame(t).args.prev_hash]) = 3
       THEN Goto(t, "L209r")
       ELSE Goto(t, "L211")
    /\ ChainUnchanged
    /\ UNCHANGED <<now, serial, entered, before, miners>>

\* line 208
L208(t) ==
    /\ Frame(t).pc = "L208"
    /\ IF Len(children_by_hash[Frame(t).args.prev_hash]) = 2
       THEN Goto(t, "L209r")
       ELSE Goto(t, "L211")
    /\ ChainUnchanged
    /\ UNCHANGED <<now, serial, entered, before, miners>>

\* line 209, the read of forks_detected
L209r(t) ==
    /\ Frame(t).pc = "L209r"
    /\ frames' = [frames EXCEPT ![t].pc = "L209w", ![t].tmp = forks_detected]
    /\ ChainUnchanged
    /\ UNCHANGED <<now, serial, entered, before, miners>>

\* line 209, the write of forks_detected
L209w(t) ==
    /\ Frame(t).pc = "L209w"
    /\ forks_detected' = Frame(t).tmp + 1
    /\ Goto(t, "L211")
    /\ UNCHANGED <<blocks_by_hash, blocks_keys, children_by_hash, tips, best_tip_hash,
                   main_chain_hashes, accepted_by_miner, rejected_total,
                   rejected_by_reason, reorg_count, now, serial, entered, before, miners>>

\* line 211
L211(t) ==
    /\ Frame(t).pc = "L211"
    /\ tips' = tips \cup {Frame(t).bh}
    /\ Goto(t, "L212")
    /\ UNCHANGED <<blocks_by_hash, blocks_keys, children_by_hash, best_tip_hash,
                   main_chain_hashes, accepted_by_miner, rejected_total,
                   rejected_by_reason, forks_detected, reorg_count, now, serial,
                   entered, before, miners>>

\* line 212
L212(t) ==
    /\ Frame(t).pc = "L212"
    /\ IF Frame(t).args.prev_hash \in tips
       THEN Goto(t, "L213")
       ELSE Goto(t, "L216r")
    /\ ChainUnchanged
    /\ UNCHANGED <<now, serial, entered, before, miners>>

\* line 213: set.remove raises KeyError when the element is gone, and the
\* exception leaves validate_and_add and the handler
L213(t) ==
    /\ Frame(t).pc = "L213"
    /\ IF Frame(t).args.prev_hash \in tips
       THEN /\ tips' = tips \ {Frame(t).args.prev_hash}
            /\ Goto(t, "L216r")
       ELSE /\ tips' = tips
            /\ frames' = [frames EXCEPT ![t].pc = "raised",
                                        ![t].ret = <<"KeyError">>]
    /\ UNCHANGED <<blocks_by_hash, blocks_keys, children_by_hash, best_tip_hash,
                   main_chain_hashes, accepted_by_miner, rejected_total,
                   rejected_by_reason, forks_detected, reorg_count, now, serial,
                   entered, before, miners>>

\* line 216, accepted_by_miner.get(miner_id, 0)
L216r(t) ==
    /\ Frame(t).pc = "L216r"
    /\ frames' = [frames EXCEPT
           ![t].pc = "L216w",
           ![t].tmp = IF Frame(t).args.miner_id \in DOMAIN accepted_by_miner
                      THEN accepted_by_miner[Frame(t).args.miner_id] ELSE 0]
    /\ ChainUnchanged
    /\ UNCHANGED <<now, serial, entered, before, miners>>

\* line 216, the store
L216w(t) ==
    /\ Frame(t).pc = "L216w"
    /\ accepted_by_miner' =
           (Frame(t).args.miner_id :> (Frame(t).tmp + 1)) @@ accepted_by_miner
    /\ Goto(t, "L219")
    /\ UNCHANGED <<blocks_by_hash, blocks_keys, children_by_hash, tips, best_tip_hash,
                   main_chain_hashes, rejected_total, rejected_by_reason,
                   forks_detected, reorg_count, now, serial, entered, before, miners>>

\* line 219
L219(t) ==
    /\ Frame(t).pc = "L219"
    /\ frames' = [frames EXCEPT ![t].pc = "L245",
                                ![t].old_best_tip_hash = best_tip_hash]
    /\ ChainUnchanged
    /\ UNCHANGED <<now, serial, entered, before, miners>>

\* _update_best_tip lines 245-248: best_tip = self.best_tip_hash
L245(t) ==
    /\ Frame(t).pc = "L245"
    /\ frames' = [frames EXCEPT ![t].pc = "L250", ![t].best_tip = best_tip_hash]
    /\ ChainUnchanged
    /\ UNCHANGED <<now, serial, entered, before, miners>>

\* the iterator that `for h in self.tips` makes of the set: the size of the
\* set and the set when the iterator was made, the elements it has yielded,
\* and with it the locals choose_random and candidates
SetIterator(S) ==
    [used |-> Cardinality(S), start |-> S, seen |-> {},
     choose_random |-> FALSE, candidates |-> <<>>]

\* one pass of the loop of lines 250-257, from the frame f of the thread:
\* the frames the thread can have after it. The iterator raises
\* RuntimeError (Set changed size during iteration) when the set has another
\* size than when the iterator was made. Else it yields an element it has
\* not yielded, in any order (the order of a set of str depends on the hash
\* seed), or ends: when nothing is left, or, after the set was changed by
\* another thread, before an element that was added behind its position.
TipPass(f) ==
    LET it == f.it
        rest == tips \ it.seen
        body(h) ==
            IF blocks_by_hash[h].height + 2 > blocks_by_hash[f.best_tip].height
            THEN [f EXCEPT !.pc = "L259", !.best_tip = h,
                           !.it.choose_random = FALSE]
            ELSE IF blocks_by_hash[h].height = blocks_by_hash[f.best_tip].height
            THEN [f EXCEPT !.pc = "L250", !.it.seen = @ \cup {h},
                           !.it.choose_random = TRUE,
                           !.it.candidates = Append(@, h)]
            ELSE [f EXCEPT !.pc = "L250", !.it.seen = @ \cup {h}]
    IN  IF Cardinality(tips) # it.used
        THEN {[f EXCEPT !.pc = "raised", !.ret = <<"RuntimeError">>]}
        ELSE {body(h) : h \in rest}
                 \cup (IF rest = {} \/ tips # it.start
                       THEN {[f EXCEPT !.pc = "L259"]} ELSE {})

\* line 250 and lines 251-257. The first time the iterator over self.tips
\* is made and asked for its first element (the interpreter does not switch
\* threads between the two, nor inside the body, which reads stored
\* blocks); after a pass that did not break the iterator is asked for the
\* next element. Its exception leaves _update_best_tip, validate_and_add
\* and the handler.
L250(t) ==
    /\ Frame(t).pc = "L250"
    /\ \E f \in TipPass(IF Frame(t).it = None
                         THEN [Frame(t) EXCEPT !.it = SetIterator(tips)]
                         ELSE Frame(t)) :
           frames' = [frames EXCEPT ![t] = f]
    /\ ChainUnchanged
    /\ UNCHANGED <<now, serial, entered, before, miners>>

\* lines 259-260: random.choice(candidates) when choose_random is set
L259(t) ==
    /\ Frame(t).pc = "L259"
    /\ \E b \in (IF Frame(t).it.choose_random
                  THEN {Frame(t).it.candidates[k] : k \in DOMAIN Frame(t).it.candidates}
                  ELSE {Frame(t).best_tip}) :
           frames' = [frames EXCEPT ![t].pc = "L262", ![t].best_tip = b]
    /\ ChainUnchanged
    /\ UNCHANGED <<now, serial, entered, before, miners>>

\* _update_best_tip line 262
L262(t) ==
    /\ Frame(t).pc = "L262"
    /\ best_tip_hash' = Frame(t).best_tip
    /\ frames' = [frames EXCEPT ![t].pc = "L221", ![t].it = None,
                                ![t].replaced = Some(best_tip_hash)]
    /\ UNCHANGED <<blocks_by_hash, blocks_keys, children_by_hash, tips, main_chain_hashes,
                   accepted_by_miner, rejected_total, rejected_by_reason,
                   forks_detected, reorg_count, now, serial, entered, before, miners>>

\* line 221
L221(t) ==
    /\ Frame(t).pc = "L221"
    /\ IF best_tip_hash # Frame(t).old_best_tip_hash
       THEN Goto(t, "L222")
       ELSE Goto(t, "L227")
    /\ ChainUnchanged
    /\ UNCHANGED <<now, serial, entered, before, miners>>

\* line 222
L222(t) ==
    /\ Frame(t).pc = "L222"
    /\ IF ~is_ancestor(blocks_by_hash, Frame(t).old_best_tip_hash, best_tip_hash)
       THEN Goto(t, "L223r")
       ELSE Goto(t, "L225")
    /\ ChainUnchanged
    /\ UNCHANGED <<now, serial, entered, before, miners>>

\* line 223, the read of reorg_count
L223r(t) ==
    /\ Frame(t).pc = "L223r"
    /\ frames' = [frames EXCEPT ![t].pc = "L223w", ![t].tmp = reorg_count]
    /\ ChainUnchanged
    /\ UNCHANGED <<now, serial, entered, before, miners>>

\* line 223, the write of reorg_count
L223w(t) ==
    /\ Frame(t).pc = "L223w"
    /\ reorg_count' = Frame(t).tmp + 1
    /\ Goto(t, "L225")
    /\ UNCHANGED <<blocks_by_hash, blocks_keys, children_by_hash, tips, best_tip_hash,
                   main_chain_hashes, accepted_by_miner, rejected_total,
                   rejected_by_reason, forks_detected, now, serial, entered, before, miners>>

\* line 225, _recompute_main_chain lines 102-109: the walk from the best tip
L225(t) ==
    /\ Frame(t).pc = "L225"
    /\ frames' = [frames EXCEPT
           ![t].pc = "L110",
           ![t].chain_hashes = recompute_main_chain(blocks_by_hash, best_tip_hash)]
    /\ ChainUnchanged
    /\ UNCHANGED <<now, serial, entered, before, miners>>

\* _recompute_main_chain line 110
L110(t) ==
    /\ Frame(t).pc = "L110"
    /\ main_chain_hashes' = Frame(t).chain_hashes
    /\ Goto(t, "L227")
    /\ UNCHANGED <<blocks_by_hash, blocks_keys, children_by_hash, tips, best_tip_hash,
                   accepted_by_miner, rejected_total, rejected_by_reason,
                   forks_detected, reorg_count, now, serial, entered, before, miners>>

\* line 227
L227(t) ==
    /\ Frame(t).pc = "L227"
    /\ frames' = [frames EXCEPT
           ![t].pc = "done",
           ![t].ret = <<TRUE, "accepted", Some(Frame(t).block)>>]
    /\ ChainUnchanged
    /\ UNCHANGED <<now, serial, entered, before, miners>>

\* one statement of the validate_and_add that thread t is in
Steps(t) ==
        \/ L169(t) \/ L176(t) \/ L181(t) \/ L187(t)
        \/ L305r(t) \/ L305w(t) \/ L306r(t) \/ L306w(t)
        \/ L192(t) \/ L203(t) \/ L204(t) \/ L205(t)
        \/ L208(t) \/ L209r(t) \/ L209w(t)
        \/ L211(t) \/ L212(t) \/ L213(t)
        \/ L216r(t) \/ L216w(t)
        \/ L219(t) \/ L245(t) \/ L250(t) \/ L259(t) \/ L262(t)
        \/ L221(t) \/ L222(t) \/ L223r(t) \/ L223w(t)
        \/ L225(t) \/ L110(t) \/ L227(t)

\* two requests of submit_block, each in its thread
NextConc == \E t \in Threads : Enter(t) \/ Steps(t)

SpecConc == Init /\ [][NextConc]_vars

\* ------------------------------------------------------------------------
\* The read-only handlers of app.py. They are sync handlers too, served by
\* the threads of the pool, and hold no lock: each call of a Chain method and
\* each read of a Chain field is a step of its own, and the steps of other
\* requests come between them. What a handler has read so far is in the
\* `tmp` of its frame.
\* ------------------------------------------------------------------------

\* a pydantic model built from keyword arguments keeps its declared fields
\* and ignores the other keywords
ModelOf(fields, kw) == [f \in fields |-> kw[f]]

BlockTemplateFields == {"height", "prev_hash", "difficulty_bits"}
MetricsFields ==
    {"height", "blocks_accepted", "avg_block_time_ms", "last_block_time_ms",
     "accepted_by_miner", "rejected_total", "rejected_by_reason", "uptime_ms"}
ChainBlockFields ==
    {"height", "prev_hash", "nonce", "miner_id", "mined_timestamp_ms",
     "accepted_timestamp_ms", "block_hash"}
ChainViewFields == {"tip_height", "difficulty_bits", "blocks"}

\* ChainBlock(**b.__dict__)
ChainBlock(b) == ModelOf(ChainBlockFields, b)

\* limit of get_chain and get_blocks: the default 20 and other integers
Limits == {-1, 0, 1, 2, 20}

\* get_template with the height of the tip itself
get_template_TipHeight(c) ==
    LET tip == best_tip(c) IN
    ModelOf(BlockTemplateFields,
            [height |-> tip.height, prev_hash |-> tip.block_hash,
             difficulty_bits |-> DIFFICULTY_BITS])

\* get_template
get_template(c) ==
    LET tip == best_tip(c) IN
    ModelOf(BlockTemplateFields,
            [height |-> tip.height + 1, prev_hash |-> tip.block_hash,
             difficulty_bits |-> DIFFICULTY_BITS])

\* the ChainView of get_chain and get_blocks: tip_height is read from the
\* chain c, blocks were read before
ChainView(c, blocks) ==
    ModelOf(ChainViewFields,
            [tip_height |-> Chain_height(c),
             difficulty_bits |-> DIFFICULTY_BITS,
             blocks |-> [i \in DOMAIN blocks |-> ChainBlock(blocks[i])]])

\* thread t takes a request of `handler`, does its first read and goes to pc
Begin(t, handler, pc, read) ==
    frames' = [frames EXCEPT ![t].pc = pc, ![t].args = handler, ![t].tmp = read]

\* thread t does one more read and goes to pc
Read(t, pc, read) ==
    frames' = [frames EXCEPT ![t].pc = pc, ![t].tmp = read @@ @]

\* the frame of thread t after it served `handler` and returned `response`
Returned(t, handler, response) ==
    frames' = [frames EXCEPT ![t].pc = "done", ![t].args = handler,
                             ![t].ret = response]

\* GET /template, line 29: chain.best_tip(), and the BlockTemplate of it
GetTemplate(t) ==
    /\ Frame(t).pc = "idle"
    /\ Returned(t, [handler |-> "get_template"], get_template(ChainState))
    /\ ChainUnchanged
    /\ UNCHANGED <<now, serial, entered, before, miners>>

\* GET /metrics, line 78: chain.height()
A78(t) ==
    /\ Frame(t).pc = "idle"
    /\ Begin(t, [handler |-> "get_metrics"], "A79",
             [height |-> Chain_height(ChainState)])
    /\ ChainUnchanged
    /\ UNCHANGED <<now, serial, entered, before, miners>>

\* line 79: len(chain.blocks_by_hash) - 1
A79(t) ==
    /\ Frame(t).pc = "A79"
    /\ Read(t, "A80", [blocks_accepted |-> Cardinality(DOMAIN blocks_by_hash) - 1])
    /\ ChainUnchanged
    /\ UNCHANGED <<now, serial, entered, before, miners>>

\* line 80: chain.avg_block_time_ms()
A80(t) ==
    /\ Frame(t).pc = "A80"
    /\ Read(t, "A81", [avg_block_time_ms |-> avg_block_time_ms(ChainState)])
    /\ ChainUnchanged
    /\ UNCHANGED <<now, serial, entered, before, miners>>

\* line 81: chain.last_block_time_ms()
A81(t) ==
    /\ Frame(t).pc = "A81"
    /\ Read(t, "A83", [last_block_time_ms |-> last_block_time_ms(ChainState)])
    /\ ChainUnchanged
    /\ UNCHANGED <<now, serial, entered, before, miners>>

\* lines 82-84: rejected_total is read; accepted_by_miner and
\* rejected_by_reason are passed as the dicts they are, not yet read
A83(t) ==
    /\ Frame(t).pc = "A83"
    /\ Read(t, "A85", [rejected_total |-> rejected_total])
    /\ ChainUnchanged
    /\ UNCHANGED <<now, serial, entered, before, miners>>

\* line 85: chain.uptime_ms(), which reads the clock (chain.py line 312)
A85(t) ==
    /\ Frame(t).pc = "A85"
    /\ Read(t, "A86", [uptime_ms |-> uptime_ms(ChainState, now)])
    /\ ChainUnchanged
    /\ UNCHANGED <<now, serial, entered, before, miners>>

\* line 86: chain.forks_detected
A86(t) ==
    /\ Frame(t).pc = "A86"
    /\ Read(t, "A87", [forks_detected |-> forks_detected])
    /\ ChainUnchanged
    /\ UNCHANGED <<now, serial, entered, before, miners>>

\* line 87: chain.reorg_count
A87(t) ==
    /\ Frame(t).pc = "A87"
    /\ Read(t, "A88", [reorg_count |-> reorg_count])
    /\ ChainUnchanged
    /\ UNCHANGED <<now, serial, entered, before, miners>>

\* line 88: chain.orphan_count(), the first operand of chain.py line 116,
\* len(self.blocks_by_hash)
A88(t) ==
    /\ Frame(t).pc = "A88"
    /\ Read(t, "L116", [blocks_counted |-> Cardinality(DOMAIN blocks_by_hash)])
    /\ ChainUnchanged
    /\ UNCHANGED <<now, serial, entered, before, miners>>

\* chain.py line 116, the second operand len(self.main_chain_hashes) and
\* the difference, which orphan_count returns
L116(t) ==
    /\ Frame(t).pc = "L116"
    /\ Read(t, "A77", [orphan_count |-> Frame(t).tmp.blocks_counted
                                           - Cardinality(main_chain_hashes)])
    /\ ChainUnchanged
    /\ UNCHANGED <<now, serial, entered, before, miners>>

\* line 77: Metrics(...) is built from the keyword arguments; it copies the
\* two dicts as they are now, and keeps its declared fields only
A77(t) ==
    /\ Frame(t).pc = "A77"
    /\ Returned(t, Frame(t).args,
                ModelOf(MetricsFields,
                        [accepted_by_miner |-> accepted_by_miner,
                         rejected_by_reason |-> rejected_by_reason]
                            @@ Frame(t).tmp))
    /\ ChainUnchanged
    /\ UNCHANGED <<now, serial, entered, before, miners>>

\* GET /metrics
GetMetrics(t) ==
    \/ A78(t) \/ A79(t) \/ A80(t) \/ A81(t) \/ A83(t)
    \/ A85(t) \/ A86(t) \/ A87(t) \/ A88(t) \/ L116(t) \/ A77(t)

\* GET /chain, lines 98-102: chain.get_main_chain_blocks(limit)
A98(t) ==
    /\ Frame(t).pc = "idle"
    /\ \E limit \in Limits :
           Begin(t, [handler |-> "get_chain", limit |-> limit], "A105",
                 [blocks |-> get_main_chain_blocks(ChainState, limit)])
    /\ ChainUnchanged
    /\ UNCHANGED <<now, serial, entered, before, miners>>

\* lines 104-108: chain.height(), and the ChainView
A105(t) ==
    /\ Frame(t).pc = "A105"
    /\ Returned(t, Frame(t).args, ChainView(ChainState, Frame(t).tmp.blocks))
    /\ ChainUnchanged
    /\ UNCHANGED <<now, serial, entered, before, miners>>

\* GET /chain
GetChain(t) == A98(t) \/ A105(t)

\* GET /all-blocks, line 117: chain.get_all_blocks()
A117(t) ==
    /\ Frame(t).pc = "idle"
    /\ Begin(t, [handler |-> "get_all_blocks"], "A119",
             [blocks |-> Chain_get_all_blocks(ChainState)])
    /\ ChainUnchanged
    /\ UNCHANGED <<now, serial, entered, before, miners>>

\* lines 118-123: line 121 assigns on_main_chain, which is no field of
\* ChainBlock, and the assignment raises ValueError at the first block
A119(t) ==
    /\ Frame(t).pc = "A119"
    /\ IF Frame(t).tmp.blocks = <<>>
       THEN Returned(t, Frame(t).args, <<>>)
       ELSE frames' = [frames EXCEPT ![t].pc = "raised",
                                     ![t].ret = <<"ValueError">>]
    /\ ChainUnchanged
    /\ UNCHANGED <<now, serial, entered, before, miners>>

\* GET /all-blocks
GetAllBlocks(t) == A117(t) \/ A119(t)

\* GET /blocks, lines 130-134: chain.get_recent_blocks(limit)
A130(t) ==
    /\ Frame(t).pc = "idle"
    /\ \E limit \in Limits :
           Begin(t, [handler |-> "get_blocks", limit |-> limit], "A136",
                 [blocks |-> get_recent_blocks(ChainState, limit)])
    /\ ChainUnchanged
    /\ UNCHANGED <<now, serial, entered, before, miners>>

\* lines 135-139: chain.height(), and the ChainView
A136(t) ==
    /\ Frame(t).pc = "A136"
    /\ Returned(t, Frame(t).args, ChainView(ChainState, Frame(t).tmp.blocks))
    /\ ChainUnchanged
    /\ UNCHANGED <<now, serial, entered, before, miners>>

\* GET /blocks
GetBlocks(t) == A130(t) \/ A136(t)

\* a read-only request served by thread t
Query(t) ==
    \/ GetTemplate(t)
    \/ GetMetrics(t)
    \/ GetChain(t)
    \/ GetAllBlocks(t)
    \/ GetBlocks(t)

\* thread t served a read-only request with this handler
Queried(t, handler) ==
    /\ "handler" \in DOMAIN Frame(t).args
    /\ Frame(t).args.handler = handler

\* the response of thread t has been sent and the thread is free again
Respond(t) ==
    /\ Frame(t).pc \in {"done", "raised"}
    /\ frames' = [frames EXCEPT ![t] = IdleFrame]
    /\ before' = IF before # None /\ before[1].thread = t THEN None ELSE before
    /\ ChainUnchanged
    /\ UNCHANGED <<now, serial, entered, miners>>

\* the thread that serves the read-only requests where the threads have
\* roles, and the thread that serves the submissions
Worker == CHOOSE t \in Threads : TRUE
Submitter == CHOOSE t \in Threads : t # Worker

\* submit_block line 43, for a header that meets the difficulty on a stored
\* parent, new or stored already, when no call is in progress
EnterSerial(t) ==
    /\ entered < MaxBlocks
    /\ NoCall
    /\ \E prev_hash \in DOMAIN blocks_by_hash, nonce \in Nonces, mined_ts \in MinedTs :
           LET height == blocks_by_hash[prev_hash].height + 1 IN
           /\ RejectReason(blocks_by_hash, height, prev_hash, nonce)
                  \in {"", DuplicateReason}
           /\ Call(t, Args(height, prev_hash, nonce, "m1", mined_ts))
    /\ UNCHANGED miners

\* the runs in which the submissions are served one after the other, by
\* any thread: the runs that the statements about sequential submissions
\* are about. Nothing in the code keeps two calls from overlapping; the runs
\* in which they do are those of the other specifications.
NextSerial == \E t \in Threads : EnterSerial(t) \/ Steps(t) \/ Respond(t)

SpecSerial == Init /\ [][NextSerial]_vars

\* the mined_ts a miner may send: its own clock, not the coordinator's
AnyMinedTs == {0, 7}

\* submit_block line 43, for any header of ConcHeights, ConcPrevHashes and
\* Nonces signed with any miner_id and mined_ts
EnterSigned(t) ==
    /\ entered < MaxSigned
    /\ \E height \in ConcHeights, prev_hash \in ConcPrevHashes, nonce \in Nonces,
          miner_id \in Miners, mined_ts \in AnyMinedTs :
           Call(t, Args(height, prev_hash, nonce, miner_id, mined_ts))
    /\ UNCHANGED miners

\* submissions that differ in miner_id and mined_ts, served in parallel
\* threads
NextSigned == \E t \in Threads : EnterSigned(t) \/ Steps(t) \/ Respond(t)

SpecSigned == Init /\ [][NextSigned]_vars

\* submit_block line 43, for a header of one miner that meets the
\* difficulty on a stored parent, new or stored already; past the first
\* MaxForked submissions of a run, for a new header on the best tip, so
\* that the canonical path grows to MaxTimed + 1 blocks
EnterTimed(t) ==
    /\ entered < MaxTimed
    /\ \E prev_hash \in DOMAIN blocks_by_hash, nonce \in Nonces, mined_ts \in MinedTs :
           LET height == blocks_by_hash[prev_hash].height + 1
               reason == RejectReason(blocks_by_hash, height, prev_hash, nonce)
           IN
           /\ IF entered < MaxForked
              THEN reason \in {"", DuplicateReason}
              ELSE reason = "" /\ prev_hash = best_tip_hash
           /\ Call(t, Args(height, prev_hash, nonce, "m1", mined_ts))
    /\ UNCHANGED miners

\* submissions, one after the other, and get_metrics requests served in
\* parallel with them while the clock runs
NextTimed ==
    \/ EnterTimed(Submitter)
    \/ Steps(Submitter)
    \/ Respond(Submitter)
    \/ GetMetrics(Worker)
    \/ Respond(Worker)
    \/ Tick

SpecTimed == Init /\ [][NextTimed]_vars

\* ------------------------------------------------------------------------
\* miner.py: a CPU miner process runs mine_once again and again. Each call
\* fetches the template (TEMPLATE_REFRESH_RATE is 1), searches a nonce whose
\* header hash meets the template's difficulty, and posts the block; with
\* --template-refresh-ms it polls the template while it searches. The
\* coordinator serves the posts of the miners in parallel threads.
\* ------------------------------------------------------------------------

\* the thread of the pool that serves the requests of miner m (a miner has
\* one request under way at most, and the threads are interchangeable)
ThreadOf(m) == IF m = "m1" THEN 1 ELSE 2

\* calls of mine_once made so far by all miners
MineOnceCalls == miners["m1"].template_counter + miners["m2"].template_counter

\* mine_once lines 28-49: GET /template into cached_tpl, start the search
MineFetch(m) ==
    /\ miners[m].pc = "idle"
    /\ MineOnceCalls < MaxCalls
    /\ miners' = [miners EXCEPT
           ![m].pc = "mining",
           ![m].cached_tpl = Some(get_template(ChainState)),
           ![m].template_counter = @ + 1]
    /\ ChainUnchanged
    /\ UNCHANGED <<now, serial, entered, before, frames>>

\* mine_once lines 85-109: the poll inside the search loop finds a template
\* that differs from the one being mined on and takes it
MineRefresh(m) ==
    /\ miners[m].pc = "mining"
    /\ LET latest == get_template(ChainState) IN
       /\ latest # miners[m].cached_tpl[1]
       /\ miners' = [miners EXCEPT ![m].cached_tpl = Some(latest)]
    /\ ChainUnchanged
    /\ UNCHANGED <<now, serial, entered, before, frames>>

\* mine_once lines 51-65: a nonce passes the test of line 56 on the
\* template's fields, the clock is read and the payload built; the search
\* starts at a random nonce, so any passing nonce can be the one found
MineFind(m) ==
    /\ miners[m].pc = "mining"
    /\ LET tpl == miners[m].cached_tpl[1] IN
       \E nonce \in Nonces :
           /\ has_leading_zero_bits(
                  sha256_hex(header_bytes(tpl.height, tpl.prev_hash, nonce)),
                  tpl.difficulty_bits)
           /\ miners' = [miners EXCEPT
                  ![m].pc = "posting",
                  ![m].payload = Some(Args(tpl.height, tpl.prev_hash, nonce, m, now))]
    /\ ChainUnchanged
    /\ UNCHANGED <<now, serial, entered, before, frames>>

\* mine_once lines 67-76, submit_block line 43: after the sleep the payload
\* is posted, and a thread of the coordinator enters validate_and_add with it
MinePost(m) ==
    /\ miners[m].pc = "posting"
    /\ Call(ThreadOf(m), miners[m].payload[1])
    /\ miners' = [miners EXCEPT ![m].pc = "waiting"]

\* mine_once lines 76-79: the response arrives. An exception in the handler
\* is answered with status 500 and a body that is no JSON: .json() raises
\* and nothing in main catches it, which ends the miner process
MineResponse(m) ==
    /\ miners[m].pc = "waiting"
    /\ Frame(ThreadOf(m)).pc \in {"done", "raised"}
    /\ miners' = [miners EXCEPT
           ![m].pc = IF Frame(ThreadOf(m)).pc = "done" THEN "idle" ELSE "crashed",
           ![m].payload = None]
    /\ frames' = [frames EXCEPT ![ThreadOf(m)] = IdleFrame]
    /\ before' = IF before # None /\ before[1].thread = ThreadOf(m)
                 THEN None ELSE before
    /\ ChainUnchanged
    /\ UNCHANGED <<now, serial, entered>>

NextMiner ==
    \/ \E m \in Miners :
           MineFetch(m) \/ MineRefresh(m) \/ MineFind(m) \/ MinePost(m)
               \/ MineResponse(m)
    \/ \E t \in Threads : Steps(t)

SpecMiner == Init /\ [][NextMiner]_vars

\* a submission enters thread t: a header that meets the difficulty on a
\* stored parent, new or stored already
EnterRead(t) ==
    /\ entered < MaxCalls
    /\ \E prev_hash \in DOMAIN blocks_by_hash, nonce \in Nonces :
           LET height == blocks_by_hash[prev_hash].height + 1 IN
           /\ RejectReason(blocks_by_hash, height, prev_hash, nonce)
                  \in {"", DuplicateReason}
           /\ Call(t, Args(height, prev_hash, nonce, "m1", 0))
    /\ UNCHANGED miners

\* submissions, one after the other, and read-only requests served in
\* parallel with them
NextRead ==
    \/ EnterRead(Submitter)
    \/ Steps(Submitter)
    \/ Respond(Submitter)
    \/ Query(Worker)
    \/ Respond(Worker)

SpecRead == Init /\ [][NextRead]_vars

\* submissions, one after the other, and get_template requests served in
\* parallel with them
NextTemplate ==
    \/ EnterRead(Submitter)
    \/ Steps(Submitter)
    \/ Respond(Submitter)
    \/ GetTemplate(Worker)
    \/ Respond(Worker)

SpecTemplate == Init /\ [][NextTemplate]_vars

\* submissions that fail the first, the second (with two given heights) or
\* the third check on the chain as constructed
RejectedArgs ==
    {Args(1, UnknownDigest, 0, "m1", 0),
     Args(2, genesis_hash, 0, "m1", 0),
     Args(1, genesis_hash, 1, "m1", 0),
     Args(0, genesis_hash, 0, "m1", 0)}

\* submit_block line 43, for a submission that will be rejected
EnterRejected(t) ==
    /\ entered < MaxCalls
    /\ \E a \in RejectedArgs : Call(t, a)
    /\ UNCHANGED miners

\* rejected submissions served in parallel, one after the other in each
\* thread
NextRejected ==
    \E t \in Threads :
        \/ EnterRejected(t)
        \/ L169(t) \/ L176(t) \/ L181(t)
        \/ L305r(t) \/ L305w(t) \/ L306r(t) \/ L306w(t)
        \/ Respond(t)

SpecRejected == Init /\ [][NextRejected]_vars

\* ------------------------------------------------------------------------
\* Properties
\* ------------------------------------------------------------------------

HeightOf(h) == blocks_by_hash[h].height

IsWrongHeightReason(reason) ==
    \E e \in 1 .. (MaxCalls + MaxBlocks), g \in Heights :
        reason = WrongHeightReason(e, g)

NonGenesis == DOMAIN blocks_by_hash \ {genesis_hash}

\* thread t has left validate_and_add: it returned, or an exception left it
HasLeft(t) == Frame(t).pc \in {"done", "raised"}

\* thread t returned Accepted / Rejected from validate_and_add
ReturnedAccepted(t) == Frame(t).pc = "done" /\ Frame(t).ret[1] = TRUE
ReturnedRejected(t) == Frame(t).pc = "done" /\ Frame(t).ret[1] = FALSE

\* no submission is in progress, and none was left by an exception
Quiescent == \A t \in Threads : Frame(t).pc \in {"idle", "done"}

\* no submission is in progress
NoneInProgress == \A t \in Threads : Frame(t).pc \in {"idle", "done", "raised"}

\* every request thread has left validate_and_add
AllReturned == \A t \in Threads : HasLeft(t)

\* C1: validate_and_add returns Accepted iff the parent is known, the height
\* is the parent's height + 1, the recomputed hash meets the difficulty and
\* is not stored yet; otherwise it returns Rejected with the reason of the
\* first failing check, in the order unknown-parent, wrong-height,
\* invalid-pow, duplicate-block. For the requests served in parallel: every
\* call that was made has returned, with the outcome the four checks give on
\* the ledger as it was at some moment of the run (the blocks D stored then).
C1_FirstFailingCheck ==
    \A t \in Threads :
        HasLeft(t) =>
            /\ Frame(t).pc = "done"
            /\ \E D \in SUBSET DOMAIN blocks_by_hash :
                   LET a == Frame(t).args
                       r == Frame(t).ret
                       known == a.prev_hash \in D
                       heightOk == a.height = blocks_by_hash[a.prev_hash].height + 1
                       bh == sha256_hex(header_bytes(a.height, a.prev_hash, a.nonce))
                       powOk == has_leading_zero_bits(bh, DIFFICULTY_BITS)
                       fresh == bh \notin D
                   IN  /\ genesis_hash \in D
                       /\ r[1] <=> (known /\ heightOk /\ powOk /\ fresh)
                       /\ r[1] => r[3] # None
                       /\ ~r[1] => r[3] = None
                       /\ ~known => r[2] = UnknownParentReason
                       /\ (known /\ ~heightOk) =>
                              r[2] = WrongHeightReason(
                                         blocks_by_hash[a.prev_hash].height + 1, a.height)
                       /\ (known /\ heightOk /\ ~powOk) => r[2] = InvalidPowReason
                       /\ (known /\ heightOk /\ powOk /\ ~fresh) => r[2] = DuplicateReason

\* C2: a rejected submission leaves blocks_by_hash, children_by_hash, tips,
\* best_tip_hash, main_chain_hashes, accepted_by_miner, forks_detected and
\* reorg_count unchanged; rejected_total and rejected_by_reason change. With
\* other requests served in parallel: no statement on the way to a Rejected
\* outcome changes one of the former, and when the call returns Rejected it
\* has been counted in rejected_total and under its reason.
C2_RejectFrame ==
    [][\A t \in Threads :
          (frames'[t].pc # Frame(t).pc /\ Frame(t).pc \in RejectPath) =>
              /\ UNCHANGED <<blocks_by_hash, blocks_keys, children_by_hash, tips,
                             best_tip_hash, main_chain_hashes, accepted_by_miner,
                             forks_detected, reorg_count>>
              /\ frames'[t].pc = "done" =>
                     /\ frames'[t].ret = <<FALSE, Frame(t).reason, None>>
                     /\ rejected_total' >= 1
                     /\ Frame(t).reason \in DOMAIN rejected_by_reason'
                     /\ rejected_by_reason'[Frame(t).reason] >= 1
    ]_vars

\* C2 witness: a duplicate of the block that the parallel request stored
\* and was credited for was rejected and counted
C2_Witness ==
    \E t, u \in Threads :
        /\ ReturnedRejected(t)
        /\ Frame(t).ret[2] = DuplicateReason
        /\ ReturnedAccepted(u)
        /\ rejected_total = 1
        /\ DOMAIN accepted_by_miner = {Frame(u).args.miner_id}
        /\ Frame(t).args.miner_id # Frame(u).args.miner_id

\* C3: every stored block other than genesis has its parent stored and its
\* height equal to the parent's height + 1.
C3_ParentLinkage ==
    \A h \in NonGenesis :
        /\ blocks_by_hash[h].prev_hash \in DOMAIN blocks_by_hash
        /\ blocks_by_hash[h].height =
               blocks_by_hash[blocks_by_hash[h].prev_hash].height + 1

\* C3 witness: two parallel requests stored a block of height 1 and its
\* child of height 2
C3_Witness ==
    /\ AllReturned
    /\ \E h \in NonGenesis :
           /\ blocks_by_hash[h].height = 2
           /\ blocks_by_hash[h].prev_hash \in NonGenesis

\* C4: every stored block other than genesis is stored under its block_hash,
\* which is the hash of its (height, prev_hash, nonce) and meets the
\* difficulty; no two stored blocks share a block_hash.
C4_HashIntegrity ==
    /\ \A h \in NonGenesis :
           LET b == blocks_by_hash[h] IN
           /\ b.block_hash = h
           /\ b.block_hash = sha256_hex(header_bytes(b.height, b.prev_hash, b.nonce))
           /\ has_leading_zero_bits(b.block_hash, DIFFICULTY_BITS)
    /\ \A h1, h2 \in DOMAIN blocks_by_hash :
           blocks_by_hash[h1].block_hash = blocks_by_hash[h2].block_hash => h1 = h2

\* C4 witness: one of two parallel requests stored a mined block, the other
\* was rejected for a hash that fails the difficulty
C4_Witness ==
    /\ Cardinality(NonGenesis) = 1
    /\ \E t \in Threads :
           /\ ReturnedRejected(t)
           /\ Frame(t).ret[2] = InvalidPowReason

\* C5: main_chain_hashes, when no submission is in progress, is exactly the
\* prev_hash path from best_tip_hash to genesis: it holds genesis and the
\* best tip, one block of each height 0..best_tip.height and no other, and
\* the parent of each member but genesis.
C5_MainChainIsPath ==
    Quiescent =>
        /\ genesis_hash \in main_chain_hashes
        /\ best_tip_hash \in main_chain_hashes
        /\ main_chain_hashes \subseteq DOMAIN blocks_by_hash
        /\ \A k \in 0 .. HeightOf(best_tip_hash) :
               Cardinality({h \in main_chain_hashes : HeightOf(h) = k}) = 1
        /\ \A h \in main_chain_hashes : HeightOf(h) <= HeightOf(best_tip_hash)
        /\ \A h \in main_chain_hashes \ {genesis_hash} :
               blocks_by_hash[h].prev_hash \in main_chain_hashes

\* the tips of maximal height
MaxHeightTips(blocks, tipset) ==
    {h \in tipset : \A g \in tipset : blocks[g].height <= blocks[h].height}

\* thread t made the call entered last, and no call has overlapped with
\* another so far: before[1].chain is the chain the call was entered with
RunsAlone(t) == before # None /\ before[1].thread = t

\* the thread, the arguments and the outcome of that call
LastThread == before[1].thread
LastArgs == Frame(LastThread).args
LastRet == Frame(LastThread).ret

\* the call entered last ran alone and returned Accepted
LastAccepted ==
    before # None /\ Frame(LastThread).pc = "done" /\ LastRet[1] = TRUE

\* the best tip at entry of that call
PreviousBest == before[1].chain.best_tip_hash

\* C6: when _update_best_tip runs with two or more tips of maximal height,
\* the current best tip among them, the tip it selects is one of them.
\* Stated of a call that runs alone, at line 262, where best_tip is the tip
\* selected and best_tip_hash still the current best tip.
C6_TieBreakKeepsMaxHeight ==
    \A t \in Threads :
        (/\ RunsAlone(t)
         /\ Frame(t).pc = "L262"
         /\ best_tip_hash \in MaxHeightTips(blocks_by_hash, tips)
         /\ Cardinality(MaxHeightTips(blocks_by_hash, tips)) >= 2)
        => Frame(t).best_tip \in MaxHeightTips(blocks_by_hash, tips)

\* the ledger is genesis -> A and genesis -> B1 -> B2 -> B3, A admitted first
SecondBranchBuilt(A, B1, B2, B3) ==
    /\ DOMAIN blocks_by_hash = {genesis_hash, A, B1, B2, B3}
    /\ Cardinality({genesis_hash, A, B1, B2, B3}) = 5
    /\ Len(children_by_hash[genesis_hash]) = 2
    /\ children_by_hash[genesis_hash][1].block_hash = A
    /\ children_by_hash[genesis_hash][2].block_hash = B1
    /\ blocks_by_hash[B2].prev_hash = B1
    /\ blocks_by_hash[B3].prev_hash = B2

\* C7: from the main chain genesis -> A, the submissions B1, B2, B3 of a
\* second branch from genesis end with best_tip_hash = B3 and reorg_count
\* one higher than before B1 (where it was 0). Stated of submissions served
\* one after the other, when the last has returned.
C7_LongerBranchWins ==
    \A A, B1, B2, B3 \in DOMAIN blocks_by_hash :
        (serial /\ Quiescent /\ SecondBranchBuilt(A, B1, B2, B3)) =>
            /\ best_tip_hash = B3
            /\ reorg_count = 1

\* a submission that passes every check on the chain as constructed
ValidOnGenesis(a) ==
    RejectReason(InitChain(start_time_ms).blocks_by_hash,
                 a.height, a.prev_hash, a.nonce) = ""

RECURSIVE DictSum(_)
DictSum(d) ==
    IF DOMAIN d = {} THEN 0
    ELSE LET k == CHOOSE x \in DOMAIN d : TRUE IN
         d[k] + DictSum([x \in DOMAIN d \ {k} |-> d[x]])

\* occurrences of the block stored under h in a child sequence
Occurrences(children, h) ==
    Cardinality({i \in DOMAIN children : children[i].block_hash = h})

\* C8: two valid, distinct children of a parent without children, submitted
\* in parallel: both are Accepted, forks_detected rises by exactly 1, and
\* tips holds both children and not the parent.
C8_ConcurrentSiblings ==
    (/\ AllReturned
     /\ Frame(1).args.prev_hash = Frame(2).args.prev_hash
     /\ ValidOnGenesis(Frame(1).args)
     /\ ValidOnGenesis(Frame(2).args)
     /\ HashOfArgs(Frame(1).args) # HashOfArgs(Frame(2).args))
    => /\ \A t \in Threads : Frame(t).pc = "done" /\ Frame(t).ret[1] = TRUE
       /\ forks_detected = 1
       /\ HashOfArgs(Frame(1).args) \in tips
       /\ HashOfArgs(Frame(2).args) \in tips
       /\ Frame(1).args.prev_hash \notin tips

\* the chain and the outcomes are those of the calls run one after the other
\* in the order t1, t2, from the chain as constructed
SerialRun(t1, t2) ==
    LET constructed == blocks_by_hash[genesis_hash].accepted_timestamp_ms IN
    \E c1 \in constructed .. MaxClock, c2 \in constructed .. MaxClock :
        \E r1 \in validate_and_add(InitChain(constructed), Frame(t1).args, c1) :
            \E r2 \in validate_and_add(r1.chain, Frame(t2).args, c2) :
                /\ ChainState = r2.chain
                /\ Frame(t1).ret = r1.ret
                /\ Frame(t2).ret = r2.ret

\* C9: parallel validate_and_add calls are atomic: their outcomes and the
\* final state are those of some sequential execution of the same calls.
C9_Serializable ==
    AllReturned =>
        /\ \A t \in Threads : Frame(t).pc = "done"
        /\ SerialRun(1, 2) \/ SerialRun(2, 1)

\* C10: the same valid (height, prev_hash, nonce) submitted by two parallel
\* requests: exactly one is Accepted, the other Rejected as duplicate-block;
\* the block is stored once, is once in its parent's child sequence, and the
\* accepted-block count rises by exactly 1.
C10_ConcurrentDuplicate ==
    (/\ AllReturned
     /\ Frame(1).args.height = Frame(2).args.height
     /\ Frame(1).args.prev_hash = Frame(2).args.prev_hash
     /\ Frame(1).args.nonce = Frame(2).args.nonce
     /\ ValidOnGenesis(Frame(1).args))
    => /\ \A t \in Threads : Frame(t).pc = "done"
       /\ \E t, u \in Threads :
              /\ Frame(t).ret[1] = TRUE
              /\ Frame(u).ret[1] = FALSE
              /\ Frame(u).ret[2] = DuplicateReason
       /\ DOMAIN blocks_by_hash = {genesis_hash, HashOfArgs(Frame(1).args)}
       /\ Occurrences(children_by_hash[Frame(1).args.prev_hash],
                      HashOfArgs(Frame(1).args)) = 1
       /\ DictSum(accepted_by_miner) = 1

\* the stored blocks without children
Childless(blocks, children) ==
    {h \in DOMAIN blocks : h \in DOMAIN children /\ children[h] = <<>>}

\* C12: tips is exactly the set of stored blocks whose child sequence is
\* empty, in every state in which no submission is in progress; a block that
\* has a child is not a tip again.
C12_TipsAreChildless ==
    Quiescent =>
        /\ tips = Childless(blocks_by_hash, children_by_hash)
        /\ \A h \in DOMAIN children_by_hash : children_by_hash[h] # <<>> => h \notin tips

\* stored blocks with two or more children
ForkPoints(children) == {h \in DOMAIN children : Len(children[h]) >= 2}

\* C13: forks_detected rises by exactly 1 at an accepted submission that
\* takes the parent's child count from 1 to 2 and is unchanged by every
\* other submission (first child, third or later child, rejection). Each
\* child sequence only grows, by one at each accepted submission, so when
\* no submission is in progress forks_detected is the number of stored
\* blocks with two or more children.
C13_ForksDetected ==
    Quiescent => forks_detected = Cardinality(ForkPoints(children_by_hash))

\* C14: best_tip_hash is the hash of a stored block that is a tip (or
\* genesis); it has no child while another block is a tip. Stated for the
\* states in which no submission is in progress.
C14_BestTipIsTip ==
    Quiescent =>
        /\ best_tip_hash \in DOMAIN blocks_by_hash
        /\ best_tip_hash \in tips \cup {genesis_hash}
        /\ children_by_hash[best_tip_hash] # <<>> => tips \subseteq {best_tip_hash}

\* C15: at every transition the stored blocks stay stored and unaltered
\* (blocks_by_hash before is a sub-map of blocks_by_hash after), and at most
\* one entry is added.
C15_LedgerOnlyGrows ==
    [][/\ \A h \in DOMAIN blocks_by_hash :
              /\ h \in DOMAIN blocks_by_hash'
              /\ blocks_by_hash'[h] = blocks_by_hash[h]
       /\ Cardinality(DOMAIN blocks_by_hash') <= Cardinality(DOMAIN blocks_by_hash) + 1
    ]_vars

\* every count of d is at least the count e holds for the same key
CountsNotBelow(d, e) == \A k \in DOMAIN e : k \in DOMAIN d /\ d[k] >= e[k]

\* C16: rejected_total, every entry of rejected_by_reason, every entry of
\* accepted_by_miner, forks_detected and reorg_count do not decrease at any
\* transition.
C16_CountersMonotonic ==
    [][/\ rejected_total' >= rejected_total
       /\ CountsNotBelow(rejected_by_reason', rejected_by_reason)
       /\ CountsNotBelow(accepted_by_miner', accepted_by_miner)
       /\ forks_detected' >= forks_detected
       /\ reorg_count' >= reorg_count
    ]_vars

\* prev_hash links followed from h until a block of height 0, n so far; -1
\* when a link leaves the ledger or more than `fuel` links are followed
RECURSIVE StepsToRoot(_, _, _, _)
StepsToRoot(blocks, h, n, fuel) ==
    IF h \notin DOMAIN blocks \/ fuel = 0 THEN -1
    ELSE IF blocks[h].height = 0 THEN n
    ELSE StepsToRoot(blocks, blocks[h].prev_hash, n + 1, fuel - 1)

\* C17: the genesis block (height 0, hash of zeros) is stored, is the only
\* stored block of height 0, and every stored block reaches it by following
\* prev_hash links in exactly `height` steps.
C17_GenesisIsRoot ==
    /\ genesis_hash \in DOMAIN blocks_by_hash
    /\ \E d \in ConstructionTicks :
           blocks_by_hash[genesis_hash] = genesis_block(start_time_ms + d)
    /\ \A h \in DOMAIN blocks_by_hash :
           /\ blocks_by_hash[h].height = 0 => h = genesis_hash
           /\ StepsToRoot(blocks_by_hash, h, 0,
                          Cardinality(DOMAIN blocks_by_hash)) = blocks_by_hash[h].height

\* C17 witness: two parallel requests stored a block of height 2 and its
\* parent
C17_Witness ==
    /\ \E h \in DOMAIN blocks_by_hash : blocks_by_hash[h].height = 2
    /\ \E t \in Threads : Frame(t).pc \notin {"idle", "done", "raised"}

\* C18: orphan_count() is the number of stored blocks minus the size of
\* main_chain_hashes, is never negative (main_chain_hashes holds stored
\* blocks only), and, when no submission is in progress, is the number of
\* stored blocks that are not on the path from the best tip to genesis.
C18_OrphanCount ==
    /\ main_chain_hashes \subseteq DOMAIN blocks_by_hash
    /\ orphan_count(ChainState) >= 0
    /\ orphan_count(ChainState) =
           Cardinality(DOMAIN blocks_by_hash) - Cardinality(main_chain_hashes)
    /\ Quiescent =>
           orphan_count(ChainState) =
               Cardinality({h \in DOMAIN blocks_by_hash :
                               ~is_ancestor(blocks_by_hash, h, best_tip_hash)})

\* C19: once (height, prev_hash, nonce) has been Accepted, a later
\* submission of the same three values, from any miner with any mined_ts,
\* is Rejected as duplicate-block, leaves the ledger as it was and does not
\* change accepted_by_miner. Stated of every call whose header is that of a
\* stored block when the call is entered, whatever the other threads do: no
\* statement of the call changes the ledger or accepted_by_miner, the call
\* stays on the way to a rejection, does not raise, and returns Rejected as
\* duplicate-block.
C19_ResubmissionRejected ==
    [][\A t \in Threads :
          (Frame(t).repeat /\ InCall(t) /\ frames'[t].pc # Frame(t).pc) =>
              /\ UNCHANGED <<blocks_by_hash, blocks_keys, children_by_hash, tips,
                             best_tip_hash, main_chain_hashes, accepted_by_miner,
                             forks_detected, reorg_count>>
              /\ frames'[t].pc \in RejectPath \cup {"done"}
              /\ frames'[t].pc = "done" =>
                     frames'[t].ret = <<FALSE, DuplicateReason, None>>
    ]_vars

\* C19 witness: a header admitted from one miner was submitted again by the
\* other miner with another mined_ts, and rejected
C19_Witness ==
    \E t \in Threads :
        /\ Frame(t).repeat
        /\ Frame(t).pc = "done"
        /\ Frame(t).ret = <<FALSE, DuplicateReason, None>>
        /\ LET b == blocks_by_hash[HashOfArgs(Frame(t).args)] IN
           /\ b.miner_id # Frame(t).args.miner_id
           /\ b.mined_timestamp_ms # Frame(t).args.mined_ts
        /\ Frame(t).args.miner_id \notin DOMAIN accepted_by_miner

\* thread t takes and answers a get_template request in this step
TemplateStep(t) ==
    /\ Frame(t).pc = "idle"
    /\ frames'[t].pc = "done"
    /\ "handler" \in DOMAIN frames'[t].args
    /\ frames'[t].args.handler = "get_template"

\* C20: get_template returns height = best_tip.height + 1 and prev_hash =
\* best_tip.block_hash for the best tip at the time of the call, with the
\* chain's difficulty_bits; the prev_hash it returns is the hash of a
\* stored block. Also when a submission is in progress in another thread.
C20_TemplateFromBestTip ==
    [][\A t \in Threads :
          TemplateStep(t) =>
              LET template == frames'[t].ret IN
              /\ DOMAIN template = BlockTemplateFields
              /\ template.height = blocks_by_hash[best_tip_hash].height + 1
              /\ template.prev_hash = blocks_by_hash[best_tip_hash].block_hash
              /\ template.prev_hash = best_tip_hash
              /\ template.difficulty_bits = DIFFICULTY_BITS
              /\ template.prev_hash \in DOMAIN blocks_by_hash
    ]_vars

\* C20 witness: a template of height 3 was returned while a submission was
\* in progress
C20_Witness ==
    \E t \in Threads :
        /\ Frame(t).pc = "done"
        /\ Queried(t, "get_template")
        /\ Frame(t).ret.height = 3
        /\ Frame(t).ret.prev_hash # genesis_hash
        /\ Frame(Submitter).pc \notin {"idle", "done", "raised"}

\* every mined block of the ledger is in the child sequence of its parent
InParentsChildren(blocks, children) ==
    \A h \in DOMAIN blocks \ {genesis_hash} :
        /\ blocks[h].prev_hash \in DOMAIN children
        /\ \E i \in DOMAIN children[blocks[h].prev_hash] :
               children[blocks[h].prev_hash][i].block_hash = h

\* the step is a read of a read-only handler
QueryStep ==
    \E t \in Threads :
        /\ frames'[t].pc # Frame(t).pc
        /\ "handler" \in DOMAIN frames'[t].args

\* C11: a read-only request served while a submission is in progress sees
\* no intermediate state: at the step that serves it, best_tip_hash is in
\* main_chain_hashes, every stored block is in its parent's child sequence,
\* and tips is the set of stored blocks without children.
C11_ReadersSeeNoIntermediateState ==
    [][QueryStep =>
        /\ best_tip_hash \in main_chain_hashes
        /\ InParentsChildren(blocks_by_hash, children_by_hash)
        /\ tips = Childless(blocks_by_hash, children_by_hash)
    ]_vars

\* d.get(k, 0)
DictGet(d, k) == IF k \in DOMAIN d THEN d[k] ELSE 0

\* the reasons validate_and_add rejects with
IsRejectReason(reason) ==
    \/ reason \in {UnknownParentReason, InvalidPowReason, DuplicateReason}
    \/ IsWrongHeightReason(reason)

\* the requests that returned Rejected with this reason
RejectedWith(reason) ==
    {t \in Threads : ReturnedRejected(t) /\ Frame(t).ret[2] = reason}

\* C21: every call of validate_and_add returns Accepted or Rejected and
\* does not raise; a Rejected outcome adds exactly 1 to rejected_total and
\* exactly 1 to the rejected_by_reason entry of its reason and to no other
\* entry, an Accepted one adds to neither, so rejected_total is the number
\* of Rejected outcomes and the sum of the rejected_by_reason counts.
C21_RejectionsCounted ==
    /\ \A t \in Threads :
           HasLeft(t) =>
               /\ Frame(t).pc = "done"
               /\ \/ Frame(t).ret[1] = TRUE /\ Frame(t).ret[2] = "accepted"
                       /\ Frame(t).ret[3] # None
                  \/ Frame(t).ret[1] = FALSE /\ IsRejectReason(Frame(t).ret[2])
                       /\ Frame(t).ret[3] = None
    /\ NoneInProgress =>
           /\ rejected_total = Cardinality({t \in Threads : ReturnedRejected(t)})
           /\ rejected_total = DictSum(rejected_by_reason)
           /\ \A k \in DOMAIN rejected_by_reason :
                  rejected_by_reason[k] = Cardinality(RejectedWith(k))

\* a block without what the miner says of itself
Erase(b) == [b EXCEPT !.miner_id = "", !.mined_timestamp_ms = 0]

\* what of a chain the claim speaks of: the ledger without miner_id and
\* mined_timestamp_ms, the tips, the best tip, the main chain and the
\* counters of rejections, forks and reorgs
Low(c) ==
    [blocks_by_hash |-> [h \in DOMAIN c.blocks_by_hash |-> Erase(c.blocks_by_hash[h])],
     children_by_hash |->
         [h \in DOMAIN c.children_by_hash |->
             [i \in DOMAIN c.children_by_hash[h] |-> Erase(c.children_by_hash[h][i])]],
     tips |-> c.tips, best_tip_hash |-> c.best_tip_hash,
     main_chain_hashes |-> c.main_chain_hashes,
     rejected_total |-> c.rejected_total,
     rejected_by_reason |-> c.rejected_by_reason,
     forks_detected |-> c.forks_detected, reorg_count |-> c.reorg_count]

\* the same of an outcome
LowRet(r) == <<r[1], r[2], IF r[3] = None THEN None ELSE Some(Erase(r[3][1]))>>

\* the chain c had every mined block come from miner_id with mined_ts
Relabel(c, miner_id, mined_ts) ==
    LET mined == DOMAIN c.blocks_by_hash \ {genesis_hash}
        relabel(b) == IF b.block_hash = genesis_hash THEN b
                      ELSE [b EXCEPT !.miner_id = miner_id,
                                     !.mined_timestamp_ms = mined_ts]
    IN  [c EXCEPT
           !.blocks_by_hash = [h \in DOMAIN @ |-> relabel(@[h])],
           !.children_by_hash =
               [h \in DOMAIN @ |-> [i \in DOMAIN @[h] |-> relabel(@[h][i])]],
           !.accepted_by_miner =
               IF mined = {} THEN <<>> ELSE (miner_id :> Cardinality(mined))]

\* the outcomes of a call, without what the miners say of themselves
LowOutcomes(c, a, t) ==
    {[chain |-> Low(r.chain), ret |-> LowRet(r.ret)] : r \in validate_and_add(c, a, t)}

\* C22: mined_ts and miner_id have no influence on validity or fork choice.
\* Stated on one call that runs alone, from which the statement on two runs
\* follows by induction on the sequence of submissions: the outcomes of a
\* call (accepted or rejected, reason, ledger, tips, best tip per choice of
\* the tip iteration, forks_detected, reorg_count, reject counters), taken
\* without miner_id and mined_timestamp_ms, are the same when the call's
\* miner_id and mined_ts are replaced by any others and the miner_id and
\* mined_ts of the blocks stored so far are replaced by any others; the
\* outcome the call had is one of them, for the clock reading of line 192.
C22_MinerDataHasNoInfluence ==
    (before # None /\ Frame(LastThread).pc = "done") =>
        \E clock \in start_time_ms .. now :
            LET outcomes == LowOutcomes(before[1].chain, LastArgs, clock) IN
            /\ [chain |-> Low(ChainState), ret |-> LowRet(LastRet)] \in outcomes
            /\ \A miner_id \in Miners, mined_ts \in AnyMinedTs,
                  stored_miner \in Miners, stored_ts \in AnyMinedTs :
                   LowOutcomes(Relabel(before[1].chain, stored_miner, stored_ts),
                               [LastArgs EXCEPT !.miner_id = miner_id,
                                                !.mined_ts = mined_ts], clock)
                       = outcomes

\* C22 witness: a block was accepted on a fork, with two tips for the fork
\* choice, from another miner and with another mined_ts than the block
\* stored before it
C22_Witness ==
    /\ LastAccepted
    /\ \E h \in DOMAIN before[1].chain.blocks_by_hash \ {genesis_hash} :
           /\ before[1].chain.blocks_by_hash[h].miner_id # LastArgs.miner_id
           /\ before[1].chain.blocks_by_hash[h].mined_timestamp_ms # LastArgs.mined_ts
    /\ forks_detected >= 1
    /\ Cardinality(tips) >= 2

\* C23: get_all_blocks returns, without error, every stored block exactly
\* once in non-decreasing height order, each with a tag on_main_chain that is
\* true iff its hash is in main_chain_hashes at the time of the call.
C23_AllBlocksTagged ==
    \A t \in Threads :
        (Queried(t, "get_all_blocks") /\ HasLeft(t)) =>
            /\ Frame(t).pc = "done"
            /\ LET out == Frame(t).ret IN
               /\ Len(out) = Cardinality(DOMAIN blocks_by_hash)
               /\ {out[i].block_hash : i \in DOMAIN out} = DOMAIN blocks_by_hash
               /\ \A i, j \in DOMAIN out : i < j => out[i].height <= out[j].height
               /\ \A i \in DOMAIN out :
                      /\ "on_main_chain" \in DOMAIN out[i]
                      /\ out[i].on_main_chain = (out[i].block_hash \in main_chain_hashes)
                      /\ ChainBlock(out[i]) = ChainBlock(blocks_by_hash[out[i].block_hash])

\* C24: the snapshot of get_metrics has every field of the metrics
\* aggregator, forks_detected, reorg_count and orphan_count among them, each
\* equal to the engine's value at the time of the call.
C24_MetricsSnapshotComplete ==
    \A t \in Threads :
        (Queried(t, "get_metrics") /\ HasLeft(t)) =>
            LET m == Frame(t).ret IN
            /\ Frame(t).pc = "done"
            /\ m.height = HeightOf(best_tip_hash)
            /\ m.accepted_by_miner = accepted_by_miner
            /\ m.rejected_total = rejected_total
            /\ m.rejected_by_reason = rejected_by_reason
            /\ {"forks_detected", "reorg_count", "orphan_count"} \subseteq DOMAIN m
            /\ m.forks_detected = forks_detected
            /\ m.reorg_count = reorg_count
            /\ m.orphan_count = orphan_count(ChainState)

\* the canonical path: the blocks on the prev_hash path from the best tip
\* to genesis
CanonicalPath == recompute_main_chain(blocks_by_hash, best_tip_hash)

\* the canonical block of height k, and the time elapsed between the
\* acceptance of the canonical block of height k - 1 and that of height k
CanonicalAt(k) == CHOOSE h \in CanonicalPath : HeightOf(h) = k
CanonicalDelta(k) ==
    blocks_by_hash[CanonicalAt(k)].accepted_timestamp_ms
        - blocks_by_hash[CanonicalAt(k - 1)].accepted_timestamp_ms

\* the sum of f(k) for k in lo .. hi
RECURSIVE SumDeltas(_, _)
SumDeltas(lo, hi) ==
    IF lo > hi THEN 0 ELSE CanonicalDelta(hi) + SumDeltas(lo, hi - 1)

\* thread t has the response of a get_metrics request
MetricsOf(t) == Queried(t, "get_metrics") /\ Frame(t).pc = "done"

\* C25: avg_block_time_ms is 0.0 when the canonical path has fewer than 3
\* blocks; otherwise it is the mean of the accepted_timestamp_ms differences
\* between consecutive canonical blocks from the pair (2nd, 3rd) on, the
\* delta from genesis to the first block left out. Stated of the call made
\* at app.py line 80, on the canonical path at the time of the call, also
\* when a submission is in progress in another thread.
C25_AvgBlockTime ==
    [][\A t \in Threads :
          (Frame(t).pc = "A80" /\ frames'[t].pc = "A81") =>
              LET avg == frames'[t].tmp.avg_block_time_ms
                  n == Cardinality(CanonicalPath)
              IN  /\ avg.den > 0
                  /\ IF n < 3 THEN avg.num = 0
                     ELSE avg.num * (n - 2) = SumDeltas(2, n - 1) * avg.den
    ]_vars

\* C25 witness: a canonical path of 4 blocks, the first accepted 1 ms after
\* genesis, the second in the same millisecond as the first and the third
\* 1 ms later, and the reported mean is (0 + 1) / 2: neither the sum, the
\* last or the largest delta, nor the mean with the first delta taken in
C25_Witness ==
    \E t \in Threads :
        /\ MetricsOf(t)
        /\ Cardinality(CanonicalPath) = 4
        /\ CanonicalDelta(1) = 1
        /\ CanonicalDelta(2) = 0
        /\ CanonicalDelta(3) = 1
        /\ Frame(t).ret.avg_block_time_ms = Quotient(1, 2)

\* C26: last_block_time_ms is None iff the canonical path is genesis alone;
\* otherwise it is accepted_timestamp_ms of the best tip minus that of the
\* parent of the best tip, whatever blocks lie on other branches. Stated of
\* the call made at app.py line 81, on the best tip at the time of the
\* call, also when a submission is in progress in another thread.
C26_LastBlockTime ==
    [][\A t \in Threads :
          (Frame(t).pc = "A81" /\ frames'[t].pc = "A83") =>
              LET last == frames'[t].tmp.last_block_time_ms
                  tip == blocks_by_hash[best_tip_hash]
              IN  /\ last = None <=> CanonicalPath = {genesis_hash}
                  /\ last # None =>
                         last = Some(tip.accepted_timestamp_ms
                             - blocks_by_hash[tip.prev_hash].accepted_timestamp_ms)
    ]_vars

\* C26 witness: a block of another branch was accepted between the best tip
\* and its parent, and the reported delta is 2
C26_Witness ==
    \E t \in Threads :
        /\ MetricsOf(t)
        /\ Frame(t).ret.last_block_time_ms = Some(2)
        /\ \E h \in DOMAIN blocks_by_hash \ CanonicalPath :
               /\ blocks_by_hash[h].accepted_timestamp_ms
                      < blocks_by_hash[best_tip_hash].accepted_timestamp_ms
               /\ blocks_by_hash[h].accepted_timestamp_ms
                      > blocks_by_hash[blocks_by_hash[best_tip_hash].prev_hash]
                            .accepted_timestamp_ms

\* C27: get_main_chain_blocks(limit) returns the empty sequence for
\* limit <= 0; for limit >= 1 it returns exactly min(limit, height of the
\* best tip + 1) blocks, the last one the best tip, in strictly ascending
\* height, each the parent of the next, every hash in main_chain_hashes.
\* Stated of the call that get_chain makes at line 98, against the Chain
\* at the time of the call.
C27_MainChainBlocks ==
    [][\A t \in Threads :
        (Frame(t).pc = "idle" /\ frames'[t].pc = "A105") =>
            LET out == frames'[t].tmp.blocks
                limit == frames'[t].args.limit
                whole == HeightOf(best_tip_hash) + 1
            IN  IF limit <= 0 THEN out = <<>>
                ELSE /\ Len(out) = IF limit < whole THEN limit ELSE whole
                     /\ out[Len(out)].block_hash = best_tip_hash
                     /\ \A i \in 1 .. (Len(out) - 1) :
                            /\ out[i].height < out[i + 1].height
                            /\ out[i + 1].prev_hash = out[i].block_hash
                     /\ \A i \in DOMAIN out :
                            /\ out[i].block_hash \in main_chain_hashes
                            /\ out[i] = blocks_by_hash[out[i].block_hash]
    ]_vars

\* C28: whenever the fork choice runs and some tip is higher than the
\* current best tip by more than one, the best tip after the call is a tip
\* that is higher than the previous best tip by more than one, whatever the
\* order in which the tips are examined.
C28_TallerTipWins ==
    (/\ LastAccepted
     /\ \E h \in tips : HeightOf(h) > HeightOf(PreviousBest) + 1)
        => /\ best_tip_hash \in tips
           /\ HeightOf(best_tip_hash) > HeightOf(PreviousBest) + 1

\* C29: across an accepted submission, if best_tip_hash changes then the new
\* best tip's height equals the previous best tip's height or exceeds it by
\* more than one; a tip exactly one higher, or any amount lower, never makes
\* the best tip change, and when no tip ties or exceeds by more than one the
\* best tip is unchanged.
C29_BestTipChangesOnlyByRule ==
    (LastAccepted /\ best_tip_hash # PreviousBest)
        => \/ HeightOf(best_tip_hash) = HeightOf(PreviousBest)
           \/ HeightOf(best_tip_hash) > HeightOf(PreviousBest) + 1

\* the blocks on the prev_hash path from block h to genesis
PathToGenesis(h) == recompute_main_chain(blocks_by_hash, h)

\* the accepted submissions whose write of best_tip_hash replaced a best
\* tip that is not on the prev_hash path from the new best tip to genesis
Reorganizations ==
    {t \in Threads :
        /\ ReturnedAccepted(t)
        /\ Frame(t).replaced # None
        /\ Frame(t).best_tip # Frame(t).replaced[1]
        /\ Frame(t).replaced[1] \notin PathToGenesis(Frame(t).best_tip)}

\* C30: reorg_count grows by exactly 1 on a submission iff the submission is
\* accepted, best_tip_hash changes, and the previous best tip is not on the
\* prev_hash path from the new best tip to genesis; it is unchanged when the
\* new best tip descends from the previous one, when the best tip does not
\* change, and on every rejection. So when no submission is in progress
\* reorg_count is the number of such submissions.
C30_ReorgCount ==
    NoneInProgress => reorg_count = Cardinality(Reorganizations)

\* C31: the height of the best tip never decreases: for every accepted
\* submission the best tip after the fork choice is at least as high as the
\* best tip before it, for every iteration order of the tip set, so the
\* height handed out by get_template never decreases.
C31_HeightNeverDecreases ==
    LastAccepted =>
        /\ HeightOf(best_tip_hash) >= HeightOf(PreviousBest)
        /\ get_template(ChainState).height >= get_template(before[1].chain).height

\* C32: rejected_by_reason is keyed by the category of the reason: all
\* wrong-height rejections are counted under one key whatever the expected
\* and the given height, so rejected_by_reason never has more than four keys.
C32_ReasonsAreCategories ==
    /\ Cardinality({k \in DOMAIN rejected_by_reason : IsWrongHeightReason(k)}) <= 1
    /\ Cardinality(DOMAIN rejected_by_reason) <= 4

\* the requests of miner m that returned Accepted
AcceptedFrom(m) ==
    {t \in Threads : ReturnedAccepted(t) /\ Frame(t).args.miner_id = m}

\* C33: an Accepted outcome adds exactly 1 to accepted_by_miner[miner_id] of
\* the submitting miner and changes nothing else in that map, so that when
\* no submission is in progress the count of each miner is the number of
\* its Accepted outcomes; with submissions served one after the other the
\* counts sum to the number of stored blocks minus 1 (genesis).
C33_AcceptedByMiner ==
    /\ NoneInProgress =>
           \A m \in Miners :
               DictGet(accepted_by_miner, m) = Cardinality(AcceptedFrom(m))
    /\ (serial /\ NoCall) =>
           DictSum(accepted_by_miner) = Cardinality(DOMAIN blocks_by_hash) - 1

\* the place of hash h in the order in which the blocks were stored
RECURSIVE StoredAt(_, _)
StoredAt(keys, h) ==
    IF keys = <<>> THEN 0
    ELSE IF keys[Len(keys)] = h THEN Len(keys)
    ELSE StoredAt(SubSeq(keys, 1, Len(keys) - 1), h)

\* C34: children_by_hash has an entry for every stored block; each
\* non-genesis block occurs exactly once in the child sequence of its own
\* parent and in no other sequence; within each sequence the children stand
\* in the order of their admission. Stated for the states in which no
\* submission is in progress.
C34_ChildrenInAdmissionOrder ==
    Quiescent =>
        /\ DOMAIN children_by_hash = DOMAIN blocks_by_hash
        /\ \A h \in NonGenesis, p \in DOMAIN children_by_hash :
               Occurrences(children_by_hash[p], h) =
                   IF p = blocks_by_hash[h].prev_hash THEN 1 ELSE 0
        /\ \A p \in DOMAIN children_by_hash :
               \A i, j \in DOMAIN children_by_hash[p] :
                   i < j => StoredAt(blocks_keys, children_by_hash[p][i].block_hash)
                                < StoredAt(blocks_keys, children_by_hash[p][j].block_hash)

\* C38: with submissions served one after the other, reorg_count > 0 implies
\* forks_detected > 0 and reorg_count never exceeds the number of accepted
\* blocks: a reorganization is counted only after some block has got a
\* second child, and at most once per accepted block.
C38_ReorgsNeedForks ==
    serial =>
        /\ reorg_count > 0 => forks_detected > 0
        /\ reorg_count <= Cardinality(NonGenesis)
        /\ before # None => reorg_count <= before[1].chain.reorg_count + 1

\* C38 witness: two reorganizations were counted with one fork detected
C38_Witness ==
    /\ serial
    /\ reorg_count = 2
    /\ forks_detected = 1
    /\ Cardinality(NonGenesis) = 3

\* C37: the parent walks of _recompute_main_chain, _is_ancestor and
\* get_main_chain_blocks end in every reachable state after at most
\* height of the best tip + 1 iterations and never look up a hash that is
\* no key of blocks_by_hash: every step goes to a stored block of strictly
\* smaller height until a block of height 0 is reached. The walk of
\* _is_ancestor is that of a thread at line 222, from the best tip in
\* search of the old_best_tip_hash it read at line 219.
C37_WalksTerminate ==
    LET blocks == blocks_by_hash
        fuel == WalkFuel(blocks)
        most == HeightOf(best_tip_hash) + 1
        recomputed == recompute_walk(blocks, best_tip_hash, 0, fuel)
    IN  /\ recomputed.exit = "break"
        /\ recomputed.iterations <= most
        /\ \A limit \in {l \in Limits : l > 0} \cup {MAIN_CHAIN_LIMIT} :
               LET listed == main_chain_walk(blocks, best_tip_hash, limit, 0, fuel)
               IN  /\ listed.exit = "break"
                   /\ listed.iterations <= most
                   /\ listed.iterations = Len(get_main_chain_blocks(ChainState, limit))
        /\ \A t \in Threads :
               Frame(t).pc = "L222" =>
                   LET searched == is_ancestor_walk(blocks, Frame(t).old_best_tip_hash,
                                                    best_tip_hash, 0, fuel)
                   IN  /\ searched.exit \in {"return", "break"}
                       /\ searched.iterations <= most
                       /\ (searched.exit = "return")
                              = is_ancestor(blocks, Frame(t).old_best_tip_hash,
                                            best_tip_hash)
        /\ \A h \in NonGenesis :
               /\ blocks[h].prev_hash \in DOMAIN blocks
               /\ blocks[blocks[h].prev_hash].height < blocks[h].height

\* C37 witness: a thread is at line 222 with a best tip of height 2, whose
\* walk to genesis takes 3 iterations and does not find the old best tip,
\* which another request stored on another branch
C37_Witness ==
    \E t \in Threads :
        /\ Frame(t).pc = "L222"
        /\ HeightOf(best_tip_hash) >= 1
        /\ recompute_walk(blocks_by_hash, best_tip_hash, 0,
                          WalkFuel(blocks_by_hash)).iterations
               = HeightOf(best_tip_hash) + 1
        /\ is_ancestor_walk(blocks_by_hash, Frame(t).old_best_tip_hash,
                            best_tip_hash, 0, WalkFuel(blocks_by_hash))
               = Walked(HeightOf(best_tip_hash) + 1, "break")

\* every block that was accepted was submitted on the best tip of the time:
\* its parent was the best tip when its call was entered, and is the best
\* tip that the call read at line 219
EachOnBestTip ==
    \A t \in Threads :
        /\ Frame(t).pc = "done"
        /\ Frame(t).ret[1] = TRUE =>
               /\ Frame(t).on_best
               /\ Frame(t).old_best_tip_hash = Frame(t).args.prev_hash

\* C35: in a run where every accepted block extends the best tip of the
\* time, after each acceptance best_tip_hash is a block just accepted,
\* height() is the number of accepted blocks, tips has exactly one element,
\* and forks_detected, reorg_count and orphan_count() all stay 0.
C35_LinearGrowth ==
    (AllReturned /\ EachOnBestTip) =>
        /\ \A t \in Threads :
               Frame(t).ret[1] = TRUE => Frame(t).replaced # None
        /\ Chain_height(ChainState) = Cardinality(NonGenesis)
        /\ Cardinality(tips) = 1
        /\ forks_detected = 0
        /\ reorg_count = 0
        /\ orphan_count(ChainState) = 0

\* C36: a CPU miner's submission is built from a template the coordinator
\* issued and a nonce that passed the same PoW test at the miner; however
\* stale the template is when the submission arrives, also after a refresh
\* inside the search loop, it is never rejected for unknown parent, wrong
\* height or invalid PoW: the only rejection is duplicate block, and every
\* other submission, on a stale template too, is answered as accepted, with
\* its block stored.
C36_MinerSubmissions ==
    \A m \in Miners :
        (miners[m].pc = "waiting" /\ HasLeft(ThreadOf(m))) =>
            LET t == ThreadOf(m) IN
            /\ Frame(t).pc = "done"
            /\ Frame(t).ret[1] = TRUE \/ Frame(t).ret[2] = DuplicateReason
            /\ Frame(t).ret[1] = TRUE =>
                   Frame(t).ret[3][1].block_hash \in DOMAIN blocks_by_hash

====
